---------------------------- MODULE Spec2Model ----------------------------
(***************************************************************************)
(* Model of the wardwell domain-boundary and path-security engine:         *)
(*   src/src/domain/path.rs      pattern detector, resolver, safe_open     *)
(*   src/src/domain/boundary.rs  BoundaryEnforcer::check_path              *)
(*   src/src/domain/model.rs     Domain::path_allowed                      *)
(*   src/src/config/types.rs     PathGlob                                  *)
(*                                                                         *)
(* Strings are sequences of characters; a character is a TLA+ string used  *)
(* atomically ("NUL", "FF0E" and "U2025" stand for the code points U+0000, *)
(* U+FF0E and U+2025).                                                     *)
(***************************************************************************)
EXTENDS Integers, Sequences, FiniteSets, TLC

VARIABLES
    fs,            \* filesystem: entry of every mutable location
    op,            \* operation in progress: "none", "safe_open", ...
    pc,            \* position of the operation in progress
    path,          \* raw path string handed to the operation
    domain,        \* the Domain (name, paths) the operation works for
    bdirs,         \* the boundary directories the domain's globs were made of
    file,          \* identity the open handle is bound to (safe_open), or None
    canonical,     \* canonical path computed by the operation, or NoPath
    result,        \* outcome of the finished operation, or None
    fsops,         \* filesystem calls made by the operation in progress
    changed,       \* the filesystem changed since the operation started
    totalMuts,     \* filesystem mutations since the beginning
    inp,           \* input of a pure function under check
    out,           \* its output
    vault,         \* content of every file of the vault, or NoFile
    registry,      \* the shared DomainRegistry (behind the RwLock)
    events,        \* filesystem events the OS has not delivered yet
    channel,       \* paths sent by the watcher callback, not yet received
    watcher,       \* the event loop of watch_vault: position and locals
    readers        \* the holders of read guards: position and what they saw

\* the state of the registry and of its watcher
regVars == <<vault, registry, events, channel, watcher, readers>>

vars == <<fs, op, pc, path, domain, bdirs, file, canonical, result, fsops,
          changed, totalMuts, inp, out, regVars>>

None == [kind |-> "None"]
NoPath == <<>>          \* no path computed yet

\* no vault, no watcher: the state of the registry variables in the
\* specifications that do not involve them
InitRegIdle ==
    /\ vault = <<>>
    /\ registry = <<>>
    /\ events = <<>>
    /\ channel = <<>>
    /\ watcher = None
    /\ readers = <<>>

-----------------------------------------------------------------------------
(* Generic string helpers                                                  *)

\* s starts with pre (str::starts_with)
StartsWith(s, pre) ==
    /\ Len(pre) <= Len(s)
    /\ SubSeq(s, 1, Len(pre)) = pre

\* str::contains
Contains(s, pat) ==
    \E i \in 1..(Len(s) - Len(pat) + 1) : SubSeq(s, i, i + Len(pat) - 1) = pat

\* char::to_lowercase on the characters of the model's alphabet
LowerChar(c) ==
    CASE c = "A" -> "a"
      [] c = "C" -> "c"
      [] c = "E" -> "e"
      [] c = "F" -> "f"
      [] OTHER -> c

\* str::to_lowercase
to_lowercase(s) == [i \in 1..Len(s) |-> LowerChar(s[i])]

-----------------------------------------------------------------------------
(* Pattern detector: src/src/domain/path.rs                                *)

DANGEROUS_PATTERNS == <<
    << <<".", ".", "/">>,  "directory traversal" >>,
    << <<".", ".", "\\">>, "directory traversal (backslash)" >>,
    << <<"%", "2", "e", "%", "2", "e">>, "URL-encoded traversal (lowercase)" >>,
    << <<"%", "2", "E", "%", "2", "E">>, "URL-encoded traversal (uppercase)" >>,
    << <<"%", "2", "e", "%", "2", "e", "%", "2", "f">>,
       "URL-encoded traversal with slash (lowercase)" >>,
    << <<"%", "2", "e", "%", "2", "e", "%", "5", "c">>,
       "URL-encoded traversal with backslash" >>,
    << <<"%", "2", "e", "%", "2", "e", "/">>, "URL-encoded dots with raw slash" >>,
    << <<"%", "2", "e", "%", "2", "e", "\\">>,
       "URL-encoded dots with raw backslash" >>,
    << <<"%", "2", "5", "2", "e", "%", "2", "5", "2", "e">>,
       "double-encoded traversal" >>,
    << <<".", ".", "%", "2", "f">>, "mixed traversal (dots + encoded slash)" >>,
    << <<".", ".", "%", "5", "c">>, "mixed traversal (dots + encoded backslash)" >>,
    << <<"%", "2", "e", "%", "2", "e", "/">>,
       "mixed traversal (encoded dots + raw slash)" >>,
    << <<"NUL">>, "null byte injection" >>,
    << <<"%", "0", "0">>, "URL-encoded null byte" >>,
    << <<"FF0E", "FF0E", "/">>, "fullwidth period traversal" >>,
    << <<"FF0E", "FF0E", "\\">>, "fullwidth period traversal (backslash)" >>,
    << <<"U2025">>, "two-dot leader (unicode traversal)" >>
>>

\* the table with its first two entries (the classic traversal) missing
DANGEROUS_PATTERNS_NoClassic ==
    SubSeq(DANGEROUS_PATTERNS, 3, Len(DANGEROUS_PATTERNS))

\* indices of the table entries the lowered input contains
DangerousHits(lowered, table) ==
    { i \in 1..Len(table) : Contains(lowered, to_lowercase(table[i][1])) }

\* the outcome for the set of table entries hit: the first one's reason
FirstHit(path_str, table, hits) ==
    IF hits # {}
    THEN LET first == CHOOSE i \in hits : \A j \in hits : i <= j
         IN  [kind |-> "DangerousPath", path |-> path_str,
              reason |-> table[first][2]]
    ELSE [kind |-> "Ok"]

\* the detector folding only the table, not the input
check_dangerous_patterns_NoFold(path_str) ==
    FirstHit(path_str, DANGEROUS_PATTERNS,
             DangerousHits(path_str, DANGEROUS_PATTERNS))

\* the detector without the classic traversal entries
check_dangerous_patterns_NoClassic(path_str) ==
    FirstHit(path_str, DANGEROUS_PATTERNS_NoClassic,
             DangerousHits(to_lowercase(path_str), DANGEROUS_PATTERNS_NoClassic))

\* check_dangerous_patterns
check_dangerous_patterns(path_str) ==
    LET lowered == to_lowercase(path_str)
    IN  FirstHit(path_str, DANGEROUS_PATTERNS,
                 DangerousHits(lowered, DANGEROUS_PATTERNS))

-----------------------------------------------------------------------------
(* Paths: std::path::Path on Unix                                          *)

RECURSIVE SplitAt(_, _)
\* str::split(sep): the segments between the separators, empty ones included
SplitAt(s, sep) ==
    IF \A i \in 1..Len(s) : s[i] # sep
    THEN <<s>>
    ELSE LET i == CHOOSE k \in 1..Len(s) :
                    /\ s[k] = sep
                    /\ \A j \in 1..(k - 1) : s[j] # sep
         IN  <<SubSeq(s, 1, i - 1)>> \o SplitAt(SubSeq(s, i + 1, Len(s)), sep)

RootDir   == <<"/">>
CurDir    == <<".">>
ParentDir == <<".", ".">>

IsNamedSegment(seg) == seg # <<>> /\ seg # CurDir

\* Path::components: repeated separators, a trailing separator and every `.`
\* but a leading one are normalised away; `..` is kept
Components(s) ==
    LET segs    == SplitAt(s, "/")
        hasRoot == s # <<>> /\ s[1] = "/"
        leadDot == ~hasRoot /\ segs[1] = CurDir
    IN  (IF hasRoot THEN <<RootDir>> ELSE <<>>)
        \o (IF leadDot THEN <<CurDir>> ELSE <<>>)
        \o SelectSeq(segs, IsNamedSegment)

IsPrefixSeq(pre, s) ==
    /\ Len(pre) <= Len(s)
    /\ \A i \in 1..Len(pre) : s[i] = pre[i]

\* a comparison of the path texts instead of the path components
PathStartsWith_Textual(p, base) == StartsWith(p, base)

\* a starts_with that no path satisfies for the empty base
PathStartsWith_NonEmpty(p, base) ==
    base # <<>> /\ IsPrefixSeq(Components(base), Components(p))

\* Path::starts_with: whole components only
PathStartsWith(p, base) == IsPrefixSeq(Components(base), Components(p))

\* PathBuf::join
PathJoin(base, rel) ==
    IF rel # <<>> /\ rel[1] = "/" THEN rel
    ELSE IF base = <<>> \/ base[Len(base)] = "/" THEN base \o rel
    ELSE base \o <<"/">> \o rel

RECURSIVE trim_end_matches(_, _)
\* str::trim_end_matches(c)
trim_end_matches(s, c) ==
    IF s # <<>> /\ s[Len(s)] = c
    THEN trim_end_matches(SubSeq(s, 1, Len(s) - 1), c)
    ELSE s

-----------------------------------------------------------------------------
(* The filesystem.  A location is the sequence of the names leading to it  *)
(* from the root; the directories and the alias /t -> /b are fixed, the    *)
(* entries under them change.                                              *)

Name(c) == <<c>>
Loc1(a) == <<Name(a)>>
Loc2(a, b) == <<Name(a), Name(b)>>

LocRoot == <<>>
LocB  == Loc1("b")          \* the directory the boundaries are made of
LocM  == Loc1("m")          \* a directory outside of it
LocO  == Loc1("o")          \* a directory outside of it, on another device
LocT  == Loc1("t")          \* a symlink to /b (as /tmp -> /private/tmp)
LocH  == Loc1("h")          \* the home directory
LocBF == Loc2("b", "f")
LocBL == Loc2("b", "l")
LocBU == Loc2("b", "u")     \* a file of mode 000
LocBN == Loc2("b", "n")     \* a file whose content is not UTF-8
LocML == Loc2("m", "l")
LocOS == Loc2("o", "s")     \* the file no boundary covers

\* the locations whose entry changes
MutableLocs == {LocBF, LocBL, LocML}

\* text of a location: "/" and the names joined by "/"
RECURSIVE PathOf(_)
PathOf(loc) ==
    IF loc = <<>> THEN <<"/">>
    ELSE IF Len(loc) = 1 THEN <<"/">> \o loc[1]
    ELSE PathOf(SubSeq(loc, 1, Len(loc) - 1)) \o <<"/">> \o loc[Len(loc)]

Absent == [kind |-> "absent"]
DirNode == [kind |-> "dir"]
FileNode(g, d, r) == [kind |-> "file", gen |-> g, data |-> d, readable |-> r]

\* content of the g-th file created at a location: the last name and g marks
FileData(loc, g) == loc[Len(loc)] \o [i \in 1..g |-> "+"]
LinkNode(target) == [kind |-> "link", target |-> target]

\* the entry at a location
NodeAt(fsx, loc) ==
    IF loc \in {LocRoot, LocB, LocM, LocO, LocH} THEN DirNode
    ELSE IF loc = LocT THEN LinkNode(PathOf(LocB))
    ELSE IF loc = LocBU THEN FileNode(0, FileData(loc, 0), FALSE)
    ELSE IF loc = LocBN THEN FileNode(0, <<"xFF">>, TRUE)
    ELSE IF loc = LocOS THEN FileNode(0, FileData(loc, 0), TRUE)
    ELSE IF loc \in MutableLocs THEN fsx[loc]
    ELSE Absent

\* the process's working directory
Cwd == LocM

\* a chain of more symlinks than the filesystem holds revisits one of them,
\* which is the loop the kernel reports as ELOOP
SymlinkFuel == Cardinality(MutableLocs) + 2

Parent(loc) == IF loc = <<>> THEN <<>> ELSE SubSeq(loc, 1, Len(loc) - 1)

\* the names of a path as the kernel walks them (no root, no empty name)
WalkNames(s) == SelectSeq(SplitAt(s, "/"), LAMBDA seg : seg # <<>>)

RECURSIVE Walk(_, _, _, _)
\* path resolution, following every symlink: the location reached or an error
Walk(fsx, cur, rest, fuel) ==
    IF rest = <<>> THEN [kind |-> "Ok", loc |-> cur]
    ELSE LET c == Head(rest) IN
         IF c = CurDir THEN Walk(fsx, cur, Tail(rest), fuel)
         ELSE IF c = ParentDir THEN Walk(fsx, Parent(cur), Tail(rest), fuel)
         ELSE LET next == Append(cur, c)
                  node == NodeAt(fsx, next)
              IN  CASE node.kind = "absent" -> [kind |-> "Err", errno |-> "ENOENT"]
                    [] node.kind = "dir" -> Walk(fsx, next, Tail(rest), fuel)
                    [] node.kind = "file" ->
                         IF Tail(rest) = <<>> THEN [kind |-> "Ok", loc |-> next]
                         ELSE [kind |-> "Err", errno |-> "ENOTDIR"]
                    [] node.kind = "link" ->
                         IF fuel = 0 THEN [kind |-> "Err", errno |-> "ELOOP"]
                         ELSE Walk(fsx,
                                   IF node.target[1] = "/" THEN LocRoot ELSE cur,
                                   WalkNames(node.target) \o Tail(rest),
                                   fuel - 1)

\* resolution of a path text from the root or the working directory
ResolveLoc(fsx, s) ==
    IF s = <<>> THEN [kind |-> "Err", errno |-> "ENOENT"]
    ELSE Walk(fsx, IF s[1] = "/" THEN LocRoot ELSE Cwd, WalkNames(s), SymlinkFuel)

\* std::fs::canonicalize (realpath): the text of the location reached
fs_canonicalize(fsx, s) ==
    LET r == ResolveLoc(fsx, s)
    IN  IF r.kind = "Ok" THEN [kind |-> "Ok", path |-> PathOf(r.loc)] ELSE r

\* device and inode number of what lies at a location: /o is another device,
\* and inode numbers are unique within a device only
DevOf(loc) == IF IsPrefixSeq(LocO, loc) THEN 2 ELSE 1

InoOf(loc, gen) ==
    CASE loc = LocRoot -> 2
      [] loc = LocO -> 2
      [] loc = LocB -> 3
      [] loc = LocM -> 4
      [] loc = LocH -> 5
      [] loc = LocBU -> 6
      [] loc = LocBN -> 7
      [] loc = LocBF -> 10 + gen
      [] loc = LocOS -> 10 + gen
      [] loc = LocBL -> 20 + gen
      [] loc = LocML -> 30 + gen
      [] OTHER -> 0

\* what a handle or a stat sees of the entry at a location
Identity(fsx, loc) ==
    LET node == NodeAt(fsx, loc)
        g    == IF node.kind = "file" THEN node.gen ELSE 0
    IN  [loc |-> loc, gen |-> g,
         dev |-> DevOf(loc), ino |-> InoOf(loc, g),
         data |-> IF node.kind = "file" THEN node.data ELSE <<>>,
         isdir |-> node.kind = "dir"]

\* File::open (read-only): the handle is bound to the entry the path leads to
File_open(fsx, s) ==
    LET r == ResolveLoc(fsx, s)
    IN  IF r.kind # "Ok" THEN r
        ELSE LET node == NodeAt(fsx, r.loc)
             IN  IF node.kind = "file" /\ ~node.readable
                 THEN [kind |-> "Err", errno |-> "EACCES"]
                 ELSE [kind |-> "Ok", file |-> Identity(fsx, r.loc)]

\* std::fs::metadata (stat): follows symlinks
fs_metadata(fsx, s) ==
    LET r == ResolveLoc(fsx, s)
    IN  IF r.kind # "Ok" THEN r
        ELSE [kind |-> "Ok", meta |-> Identity(fsx, r.loc)]

-----------------------------------------------------------------------------
(* PathGlob: src/src/config/types.rs.  The glob texts of the model hold    *)
(* literal characters and single `*` wildcards.                            *)

\* the HOME of the process environment (dirs_home)
HOME == PathOf(LocH)

RECURSIVE GlobMatch(_, _)
\* glob::Pattern::matches_path with the default MatchOptions: `*` stands for
\* any run of characters, `/` included
GlobMatch(pat, s) ==
    IF pat = <<>> THEN s = <<>>
    ELSE IF Head(pat) = "*"
         THEN \E k \in 0..Len(s) : GlobMatch(Tail(pat), SubSeq(s, k + 1, Len(s)))
         ELSE /\ s # <<>>
              /\ Head(s) = Head(pat)
              /\ GlobMatch(Tail(pat), Tail(s))

\* glob::Pattern::new accepts the text: `**` must be a whole path component
\* and `***` is refused; a `[` needs a `]` two or more characters later
GlobSyntaxOk(pat) ==
    /\ \A i \in 1..(Len(pat) - 1) : ~(pat[i] = "*" /\ pat[i + 1] = "*")
    /\ \A i \in 1..Len(pat) :
          pat[i] = "[" => \E j \in (i + 2)..Len(pat) : pat[j] = "]"

\* PathGlob::expand
PathGlob_expand(glob) ==
    IF StartsWith(glob, <<"~", "/">>)
    THEN PathJoin(HOME, SubSeq(glob, 3, Len(glob)))
    ELSE glob

\* the text before the first `*`: pattern_str.split('*').next()
LiteralPrefix(pattern_str) == SplitAt(pattern_str, "*")[1]

\* the base directory PathGlob::matches extracts from the expanded pattern
GlobBase(glob) == trim_end_matches(LiteralPrefix(PathGlob_expand(glob)), "/")

\* PathGlob::matches accepting every path that starts with the text of the base
PathGlob_matches_Textual(fsx, glob, p) ==
    LET pattern_str == PathGlob_expand(glob)
        base_path   == GlobBase(glob)
        canon_base  == fs_canonicalize(fsx, base_path)
    IN  \/ GlobSyntaxOk(pattern_str) /\ GlobMatch(pattern_str, p)
        \/ PathStartsWith_Textual(p, base_path)
        \/ canon_base.kind = "Ok" /\ PathStartsWith_Textual(p, canon_base.path)

\* PathGlob::matches without the canonicalized-base fallback
PathGlob_matches_NoCanonical(fsx, glob, p) ==
    LET pattern_str == PathGlob_expand(glob)
    IN  \/ GlobSyntaxOk(pattern_str) /\ GlobMatch(pattern_str, p)
        \/ PathStartsWith(p, GlobBase(glob))

\* PathGlob::matches by the glob pattern alone
PathGlob_matches_PatternOnly(fsx, glob, p) ==
    GlobSyntaxOk(PathGlob_expand(glob)) /\ GlobMatch(PathGlob_expand(glob), p)

\* PathGlob::matches
PathGlob_matches(fsx, glob, p) ==
    LET pattern_str == PathGlob_expand(glob)
        base_path   == GlobBase(glob)
        canon_base  == fs_canonicalize(fsx, base_path)
    IN  \/ GlobSyntaxOk(pattern_str) /\ GlobMatch(pattern_str, p)
        \/ PathStartsWith(p, base_path)
        \/ canon_base.kind = "Ok" /\ PathStartsWith(p, canon_base.path)

-----------------------------------------------------------------------------
(* Domain: src/src/domain/model.rs                                         *)

\* Domain::path_allowed asking all globs to match
path_allowed_All(fsx, d, p) ==
    \A i \in 1..Len(d.paths) : PathGlob_matches(fsx, d.paths[i], p)

\* Domain::path_allowed
path_allowed(fsx, d, p) ==
    \E i \in 1..Len(d.paths) : PathGlob_matches(fsx, d.paths[i], p)

-----------------------------------------------------------------------------
(* PathError and its Display text: src/src/domain/path.rs                  *)

\* the text of an io::Error
IoErrorText(errno) ==
    CASE errno = "ENOENT" -> "No such file or directory (os error 2)"
      [] errno = "EACCES" -> "Permission denied (os error 13)"
      [] errno = "ENOTDIR" -> "Not a directory (os error 20)"
      [] errno = "ELOOP" -> "Too many levels of symbolic links (os error 40)"
      [] errno = "EISDIR" -> "Is a directory (os error 21)"
      [] OTHER -> "stream did not contain valid UTF-8"

\* PathError's #[error(...)] texts: a text is the sequence of its pieces
PathError_to_string(e) ==
    CASE e.kind = "Resolution" ->
            <<"path resolution failed for '", e.path, "': ", e.source>>
      [] e.kind = "ResolutionFailed" ->
            <<"path resolution failed for '", e.path, "': ", e.reason>>
      [] e.kind = "DangerousPath" ->
            <<"dangerous path detected: '", e.path, "' -- ", e.reason>>
      [] e.kind = "OutsideBoundary" ->
            <<"path '", e.path, "' is outside domain boundary (", e.boundary, ")">>
      [] e.kind = "TraversalDetected" ->
            <<"TOCTOU traversal detected for '", e.path, "': ", e.reason>>
      [] e.kind = "ReadFailed" ->
            <<"failed to read file '", e.path, "': ", e.reason>>

\* a resolve_path that takes the path as written, following no symlink
resolve_path_AsWritten(fsx, p) ==
    IF fs_canonicalize(fsx, p).kind = "Ok" THEN [kind |-> "Ok", path |-> p]
    ELSE [kind |-> "Resolution", path |-> p,
          source |-> IoErrorText(fs_canonicalize(fsx, p).errno)]

\* resolve_path
resolve_path(fsx, p) ==
    LET r == fs_canonicalize(fsx, p)
    IN  IF r.kind = "Ok" THEN r
        ELSE [kind |-> "Resolution", path |-> p, source |-> IoErrorText(r.errno)]

\* the bytes are valid UTF-8 ("xFF" never occurs in UTF-8)
Utf8Valid(bytes) == \A i \in 1..Len(bytes) : bytes[i] # "xFF"

-----------------------------------------------------------------------------
(* The operations, one action per filesystem call                          *)

Finish(r) ==
    /\ result' = r
    /\ pc' = "done"

\* an entry that touches the filesystem before it looks at the raw string:
\* a path that does not resolve is reported as such
Begin_ResolveFirst(o, p) ==
    /\ pc = "idle"
    /\ op' = o
    /\ path' = p
    /\ file' = None
    /\ canonical' = NoPath
    /\ fsops' = 1
    /\ changed' = FALSE
    /\ LET c == resolve_path(fs, p)
           r == check_dangerous_patterns(p)
           e == IF c.kind # "Ok"
                THEN [kind |-> "ResolutionFailed", path |-> p, reason |-> c.source]
                ELSE r
       IN  IF e.kind # "Ok"
           THEN Finish(IF o = "check_path"
                       THEN [kind |-> "Block", reason |-> PathError_to_string(e)]
                       ELSE e)
           ELSE /\ result' = None
                /\ pc' = IF o \in {"safe_open", "safe_open_read"}
                         THEN "open" ELSE "resolve"
    /\ UNCHANGED <<fs, domain, bdirs, totalMuts, inp, out, regVars>>

\* entry of every operation: the pattern check on the raw string
\* (path.rs:95, path.rs:129, boundary.rs:33)
Begin(o, p) ==
    /\ pc = "idle"
    /\ op' = o
    /\ path' = p
    /\ file' = None
    /\ canonical' = NoPath
    /\ fsops' = 0
    /\ changed' = FALSE
    /\ LET r == check_dangerous_patterns(p)
       IN  IF r.kind # "Ok"
           THEN Finish(IF o = "check_path"
                       THEN [kind |-> "Block", reason |-> PathError_to_string(r)]
                       ELSE r)
           ELSE /\ result' = None
                /\ pc' = IF o \in {"safe_open", "safe_open_read"}
                         THEN "open" ELSE "resolve"
    /\ UNCHANGED <<fs, domain, bdirs, totalMuts, inp, out, regVars>>

\* a safe_open that tests the raw path against the boundaries before it opens
SafeOpen_Open_BoundaryFirst ==
    /\ pc = "open"
    /\ fsops' = fsops + 1
    /\ LET r == File_open(fs, path)
       IN  IF ~(\E i \in 1..Len(domain.paths) :
                    PathGlob_matches(fs, domain.paths[i], path))
           THEN /\ Finish([kind |-> "OutsideBoundary", path |-> path,
                           boundary |-> domain.paths])
                /\ UNCHANGED file
           ELSE IF r.kind = "Ok"
           THEN /\ file' = r.file
                /\ pc' = "canonicalize"
                /\ UNCHANGED result
           ELSE /\ Finish([kind |-> "ResolutionFailed", path |-> path,
                           reason |-> IoErrorText(r.errno)])
                /\ UNCHANGED file
    /\ UNCHANGED <<fs, op, path, domain, bdirs, canonical, changed, totalMuts, inp, out, regVars>>

\* a safe_open that opens the file with File::create, which truncates it
SafeOpen_Open_Truncating ==
    /\ pc = "open"
    /\ fsops' = fsops + 1
    /\ LET r == File_open(fs, path)
       IN  IF r.kind = "Ok"
           THEN /\ file' = r.file
                /\ pc' = "canonicalize"
                /\ fs' = IF r.file.loc \in MutableLocs /\ ~r.file.isdir
                         THEN [fs EXCEPT ![r.file.loc].data = <<>>]
                         ELSE fs
                /\ UNCHANGED result
           ELSE /\ Finish([kind |-> "ResolutionFailed", path |-> path,
                           reason |-> IoErrorText(r.errno)])
                /\ UNCHANGED <<file, fs>>
    /\ UNCHANGED <<op, path, domain, bdirs, canonical, changed, totalMuts, inp, out, regVars>>

\* safe_open step 2: File::open
SafeOpen_Open ==
    /\ pc = "open"
    /\ fsops' = fsops + 1
    /\ LET r == File_open(fs, path)
       IN  IF r.kind = "Ok"
           THEN /\ file' = r.file
                /\ pc' = "canonicalize"
                /\ UNCHANGED result
           ELSE /\ Finish([kind |-> "ResolutionFailed", path |-> path,
                           reason |-> IoErrorText(r.errno)])
                /\ UNCHANGED file
    /\ UNCHANGED <<fs, op, path, domain, bdirs, canonical, changed, totalMuts, inp, out, regVars>>

\* safe_open step 3: std::fs::canonicalize
SafeOpen_Canonicalize ==
    /\ pc = "canonicalize"
    /\ fsops' = fsops + 1
    /\ LET r == fs_canonicalize(fs, path)
       IN  IF r.kind = "Ok"
           THEN /\ canonical' = r.path
                /\ pc' = "metadata"
                /\ UNCHANGED result
           ELSE /\ Finish([kind |-> "ResolutionFailed", path |-> path,
                           reason |-> <<"canonicalization failed: ",
                                        IoErrorText(r.errno)>>])
                /\ UNCHANGED canonical
    /\ UNCHANGED <<fs, op, path, domain, bdirs, file, changed, totalMuts, inp, out, regVars>>

\* the identity test of step 4 comparing the inode numbers only
IdentityDiffers_InoOnly(fd_meta, canonical_meta) ==
    fd_meta.ino # canonical_meta.ino

\* the identity test of step 4 (path.rs:162)
IdentityDiffers(fd_meta, canonical_meta) ==
    fd_meta.dev # canonical_meta.dev \/ fd_meta.ino # canonical_meta.ino

\* safe_open step 4: fstat of the handle, stat of the canonical path, compare
SafeOpen_Metadata ==
    /\ pc = "metadata"
    /\ fsops' = fsops + 2
    /\ LET fd_meta == file
           r       == fs_metadata(fs, canonical)
       IN  IF r.kind # "Ok"
           THEN Finish([kind |-> "ResolutionFailed", path |-> path,
                        reason |-> IoErrorText(r.errno)])
           ELSE IF IdentityDiffers(fd_meta, r.meta)
           THEN Finish([kind |-> "TraversalDetected", path |-> path,
                        reason |-> "fd does not match canonical path (device/inode mismatch -- possible TOCTOU attack)"])
           ELSE /\ pc' = "boundary"
                /\ UNCHANGED result
    /\ UNCHANGED <<fs, op, path, domain, bdirs, file, canonical, changed, totalMuts,
                   inp, out, regVars>>

\* the boundary test of step 5 passing every path
BoundaryAllows_Always(fsx, boundaries, canon) == TRUE

\* the boundary test of step 5 (path.rs:170)
BoundaryAllows(fsx, boundaries, canon) ==
    \E i \in 1..Len(boundaries) : PathGlob_matches(fsx, boundaries[i], canon)

\* the canonicalize calls `any(|g| g.matches(p))` makes: one for every glob
\* tried whose pattern and whose base both fail, up to the first match
MatchFsCalls(fsx, globs, p) ==
    LET hits  == { i \in 1..Len(globs) : PathGlob_matches(fsx, globs[i], p) }
        last  == IF hits = {} THEN Len(globs)
                 ELSE CHOOSE i \in hits : \A j \in hits : i <= j
    IN  Cardinality({ i \in 1..last :
                        ~PathGlob_matches_NoCanonical(fsx, globs[i], p) })

\* safe_open step 5: the canonical path against the boundary globs
SafeOpen_Boundary ==
    /\ pc = "boundary"
    /\ fsops' = fsops + MatchFsCalls(fs, domain.paths, canonical)
    /\ IF ~BoundaryAllows(fs, domain.paths, canonical)
       THEN Finish([kind |-> "OutsideBoundary", path |-> canonical,
                    boundary |-> domain.paths])
       ELSE IF op = "safe_open_read"
       THEN /\ pc' = "read"
            /\ UNCHANGED result
       ELSE Finish([kind |-> "Ok", file |-> file])
    /\ UNCHANGED <<fs, op, path, domain, bdirs, file, canonical, changed, totalMuts,
                   inp, out, regVars>>

\* safe_open_read: read_to_string on the handle safe_open returned
SafeOpenRead_Read ==
    /\ pc = "read"
    /\ fsops' = fsops + 1
    /\ IF file.isdir
       THEN Finish([kind |-> "ReadFailed", path |-> path,
                    reason |-> IoErrorText("EISDIR")])
       ELSE IF ~Utf8Valid(file.data)
       THEN Finish([kind |-> "ReadFailed", path |-> path,
                    reason |-> IoErrorText("EINVAL")])
       ELSE Finish([kind |-> "Ok", file |-> file, contents |-> file.data])
    /\ UNCHANGED <<fs, op, path, domain, bdirs, file, canonical, changed, totalMuts,
                   inp, out, regVars>>

\* check_path and validate_path: resolve_path on the raw string
Resolve ==
    /\ pc = "resolve"
    /\ fsops' = fsops + 1
    /\ LET r == resolve_path(fs, path)
       IN  IF r.kind = "Ok"
           THEN /\ canonical' = r.path
                /\ IF op = "validate_path"
                   THEN Finish([kind |-> "Ok", path |-> r.path])
                   ELSE /\ pc' = "allowed"
                        /\ UNCHANGED result
           ELSE /\ UNCHANGED canonical
                /\ Finish(IF op = "validate_path" THEN r
                          ELSE [kind |-> "Block",
                                reason |-> <<"path resolution failed: ",
                                             PathError_to_string(r)>>])
    /\ UNCHANGED <<fs, op, path, domain, bdirs, file, changed, totalMuts, inp, out, regVars>>

\* check_path: domain.path_allowed on the canonical path
CheckPath_Allowed ==
    /\ pc = "allowed"
    /\ fsops' = fsops + MatchFsCalls(fs, domain.paths, canonical)
    /\ IF path_allowed(fs, domain, canonical)
       THEN Finish([kind |-> "Allow"])
       ELSE Finish([kind |-> "Block",
                    reason |-> <<"path '", path,
                                 "' is outside domain boundary (resolved: '",
                                 canonical, "')">>])
    /\ UNCHANGED <<fs, op, path, domain, bdirs, file, canonical, changed, totalMuts,
                   inp, out, regVars>>

\* the caller takes the result; the next operation may start
Return ==
    /\ pc = "done"
    /\ pc' = "idle"
    /\ op' = "none"
    /\ result' = None
    /\ file' = None
    /\ canonical' = NoPath
    /\ fsops' = 0
    /\ path' = <<>>
    /\ changed' = FALSE
    /\ UNCHANGED <<fs, domain, bdirs, totalMuts, inp, out, regVars>>

-----------------------------------------------------------------------------
(* The environment: another process changing the filesystem                *)

MaxMuts == 2          \* filesystem mutations in one behaviour
MaxGen == 1           \* files created at one location are numbered 0..MaxGen

Gens == 0..MaxGen

\* what a location can be replaced by
EntriesFor(loc) ==
    {Absent}
    \cup { FileNode(g, FileData(loc, g), TRUE) : g \in Gens }
    \cup { LinkNode(PathOf(t)) : t \in (MutableLocs \cup {LocOS}) \ {loc} }

\* the entry at loc is replaced: removed, a different file, a symlink or a
\* symlink with a different target.  A file that is still open keeps its
\* inode, so the new file never has the identity of the open handle.
Mutate(loc, entry) ==
    /\ totalMuts < MaxMuts
    /\ entry # fs[loc]
    /\ entry.kind = "file" =>
          /\ fs[loc].kind = "file" => entry.gen # fs[loc].gen
          /\ file # None => ~(file.loc = loc /\ file.gen = entry.gen)
    /\ fs' = [fs EXCEPT ![loc] = entry]
    /\ totalMuts' = totalMuts + 1
    /\ changed' = (pc # "idle")
    /\ UNCHANGED <<op, pc, path, domain, bdirs, file, canonical, result, fsops,
                   inp, out, regVars>>

-----------------------------------------------------------------------------
(* The specification of the operations                                     *)

\* the path texts handed to the operations
RawPaths == {
    PathOf(LocBF), PathOf(LocBL), PathOf(LocML), PathOf(LocOS), PathOf(LocBU),
    PathOf(LocBN), PathOf(LocB),
    <<"/", "t", "/", "f">>,                       \* through the alias /t
    <<"/", "b", "/", "x">>,                       \* nothing there
    <<"l">>,                                      \* relative
    <<"/", "b", "/", ".", ".">>,                  \* `..` at the end
    <<"/", "b", "/", ".", ".", "/", "o", "/", "s">>,
    <<"/", "x", "/", ".", ".", "/", "y">>,
    <<"/", "b", "/", "%", "2", "E", "%", "2", "e">>,
    <<"/", "b", "/", "f", "%", "0", "0">> }

\* the operations and the paths they are called with
Calls ==
    ({"safe_open", "check_path"} \X RawPaths)
    \cup ({"safe_open_read"} \X
            { PathOf(LocBF), PathOf(LocBL), PathOf(LocBN), PathOf(LocBU),
              PathOf(LocB), PathOf(LocOS), <<"/", "t", "/", "f">> })
    \cup ({"validate_path"} \X
            { PathOf(LocBF), PathOf(LocBL), <<"/", "b", "/", "x">>,
              <<"/", "x", "/", ".", ".", "/", "y">> })

\* the glob a boundary directory is configured with
GlobOfDir(dir) == dir \o <<"/", "*">>

\* the boundary directories of the domains of the model
BoundaryDirChoices == {
    << PathOf(LocB) >>,
    << PathOf(LocT) >>,
    << PathOf(LocH), PathOf(LocB) >>,
    << >> }

DomainOfDirs(dirs) ==
    [name |-> "test", paths |-> [i \in 1..Len(dirs) |-> GlobOfDir(dirs[i])]]

\* the filesystem at the start: /b/f and /o/s are files, /b/l -> /m/l -> /o/s
InitFs ==
    [l \in MutableLocs |->
        CASE l = LocBF -> FileNode(0, FileData(l, 0), TRUE)
          [] l = LocBL -> LinkNode(PathOf(LocML))
          [] l = LocML -> LinkNode(PathOf(LocOS))]

Init ==
    /\ fs = InitFs
    /\ op = "none"
    /\ pc = "idle"
    /\ path = <<>>
    /\ \E dirs \in BoundaryDirChoices :
          /\ bdirs = dirs
          /\ domain = DomainOfDirs(dirs)
    /\ file = None
    /\ canonical = NoPath
    /\ result = None
    /\ fsops = 0
    /\ changed = FALSE
    /\ totalMuts = 0
    /\ inp = None
    /\ out = None
    /\ InitRegIdle

Next ==
    \/ \E c \in Calls : Begin(c[1], c[2])
    \/ SafeOpen_Open
    \/ SafeOpen_Canonicalize
    \/ SafeOpen_Metadata
    \/ SafeOpen_Boundary
    \/ SafeOpenRead_Read
    \/ Resolve
    \/ CheckPath_Allowed
    \/ Return
    \/ \E loc \in MutableLocs : \E entry \in EntriesFor(loc) : Mutate(loc, entry)

Spec == Init /\ [][Next]_vars

-----------------------------------------------------------------------------
(* The pattern detector on its own: check_dangerous_patterns applied to    *)
(* one input string                                                        *)

MaxPatLen == 3        \* every string up to this length is an input

PatAlphabet == {".", "/", "\\", "%", "0", "a", "NUL", "FF0E", "U2025"}

\* all strings over the alphabet of length at most n
StringsUpTo(n, alphabet) ==
    UNION { [1..k -> alphabet] : k \in 0..n }

\* the upper- and lower-case spellings of a character
CaseVariants(c) ==
    CASE c = "a" -> {"a", "A"}
      [] c = "c" -> {"c", "C"}
      [] c = "e" -> {"e", "E"}
      [] c = "f" -> {"f", "F"}
      [] OTHER -> {c}

RECURSIVE CaseMixes(_)
\* every upper/lower-case mix of a string
CaseMixes(str) ==
    IF str = <<>> THEN { <<>> }
    ELSE { <<c>> \o m : c \in CaseVariants(Head(str)), m \in CaseMixes(Tail(str)) }

\* the dangerous substrings as the documentation lists them
DocumentedPatterns == {
    <<".", ".", "/">>, <<".", ".", "\\">>,
    <<"%", "2", "e", "%", "2", "e">>,
    <<"%", "2", "5", "2", "e", "%", "2", "5", "2", "e">>,
    <<".", ".", "%", "2", "f">>, <<".", ".", "%", "5", "c">>,
    <<"NUL">>, <<"%", "0", "0">>,
    <<"FF0E", "FF0E", "/">>, <<"FF0E", "FF0E", "\\">>,
    <<"U2025">> }

\* the encoded entries in every case mix, bare and inside a path
EncodedInputs ==
    LET mixes == UNION { CaseMixes(e) : e \in DocumentedPatterns }
    IN  mixes \cup { <<"/", "a", "/">> \o m \o <<"/", "a">> : m \in mixes }

\* ordinary paths and near misses of the table entries
SafeInputs == {
    <<"/", "a", "/", "a", ".", "a">>,
    <<"a", "/", "a", ".", "a">>,
    <<".", "/", "a", "/", ".", "a">>,
    <<"/", "a", "/", ".", "/", "a">>,
    <<"/", "a", "/", ".", ".">>,
    <<"%", "2", "e", ".", "%", "2", "e">>,
    <<"%", "2", "e", "/", "%", "2", "e">>,
    <<"%", "2", "5", "2", "e">>,
    <<".", "%", "2", "f">>,
    <<"%", "2", "f", "%", "5", "c">>,
    <<"FF0E", "/", "FF0E", "a">>,
    <<"%", "0", "a", "0">> }

PatternInputs ==
    StringsUpTo(MaxPatLen, PatAlphabet) \cup EncodedInputs \cup SafeInputs

\* no path operation under way
InitNoCall ==
    /\ fs = InitFs
    /\ op = "none"
    /\ pc = "idle"
    /\ path = <<>>
    /\ bdirs = <<>>
    /\ domain = DomainOfDirs(<<>>)
    /\ file = None
    /\ canonical = NoPath
    /\ result = None
    /\ fsops = 0
    /\ changed = FALSE
    /\ totalMuts = 0
    /\ out = None

InitIdle ==
    /\ InitNoCall
    /\ InitRegIdle

InitPattern ==
    /\ InitIdle
    /\ inp \in PatternInputs

\* the detector is applied to the input
CheckPattern ==
    /\ out = None
    /\ out' = check_dangerous_patterns(inp)
    /\ UNCHANGED <<fs, op, pc, path, domain, bdirs, file, canonical, result,
                   fsops, changed, totalMuts, inp, regVars>>

NextPattern == CheckPattern

SpecPattern == InitPattern /\ [][NextPattern]_vars

\* the lowered input contains the lowered form of a documented entry
DocumentedDangerous(str) ==
    \E e \in DocumentedPatterns :
        \E m \in CaseMixes(e) : Contains(str, m)

\* C3: check_dangerous_patterns rejects with DangerousPath exactly the
\* strings that contain, in any mix of upper and lower case, an entry of the
\* documented list; every case mix of an entry is rejected, and the ordinary
\* paths (absolute, relative, with single dots) are accepted.
C3_DetectorMatchesTable ==
    out # None =>
        /\ out.kind = "DangerousPath" <=> DocumentedDangerous(inp)
        /\ out.kind = "DangerousPath" => out.path = inp
        /\ inp \in EncodedInputs => out.kind = "DangerousPath"
        /\ inp \in SafeInputs => out.kind = "Ok"

\* a mixed-case encoded entry has been handed to the detector and rejected
C3_Witness ==
    /\ out # None
    /\ inp = <<"/", "a", "/", ".", ".", "%", "5", "C", "/", "a">>
    /\ out.kind = "DangerousPath"

-----------------------------------------------------------------------------
(* Properties of the operations                                            *)

\* the real locations of the boundary directories
BoundaryLocs ==
    { ResolveLoc(fs, bdirs[i]).loc :
        i \in { j \in 1..Len(bdirs) : ResolveLoc(fs, bdirs[j]).kind = "Ok" } }

\* the location is a boundary directory or lies below one
UnderBoundary(loc) == \E b \in BoundaryLocs : IsPrefixSeq(b, loc)

\* the location lies below a boundary directory
StrictlyUnderBoundary(loc) ==
    \E b \in BoundaryLocs : IsPrefixSeq(b, loc) /\ Len(loc) > Len(b)

Opening == op \in {"safe_open", "safe_open_read"}

\* C1: whenever safe_open returns a handle, whatever another process did to
\* the filesystem meanwhile, the file the handle is bound to lies inside one
\* of the boundaries.
C1_HandleInsideBoundary ==
    (Opening /\ pc = "done" /\ result.kind = "Ok")
        => UnderBoundary(result.file.loc)

\* C2: when the identity (device, inode) of the open handle differs from the
\* identity read from the canonical path in step 4, safe_open ends with
\* TraversalDetected and hands out no handle, whether or not the canonical
\* path is inside a boundary.
C2_SwapDetected ==
    [][ ( /\ pc = "metadata"
          /\ pc' # "metadata"
          /\ fs_metadata(fs, canonical).kind = "Ok"
          /\ <<file.dev, file.ino>> #
                <<fs_metadata(fs, canonical).meta.dev,
                  fs_metadata(fs, canonical).meta.ino>> )
        => (pc' = "done" /\ result'.kind = "TraversalDetected") ]_vars

\* safe_open has rejected a swapped path whose canonical form is inside the
\* boundary, the handle being bound to the file outside
C2_Witness ==
    /\ op = "safe_open"
    /\ pc = "done"
    /\ result.kind = "TraversalDetected"
    /\ file.loc = LocOS
    /\ BoundaryAllows(fs, domain.paths, canonical)

\* the outcome of an operation is the dangerous-pattern one
DangerousOutcome ==
    IF op = "check_path"
    THEN /\ result.kind = "Block"
         /\ result.reason[1] = "dangerous path detected: '"
         /\ result.reason[2] = path
    ELSE /\ result.kind = "DangerousPath"
         /\ result.path = path

\* C4: in check_path, validate_path and safe_open a raw string that holds a
\* dangerous pattern ends the operation with the dangerous-pattern outcome
\* before any filesystem call is made, also when the path does not exist.
C4_PatternCheckFirst ==
    (op # "none" /\ DocumentedDangerous(path))
        => (pc = "done" /\ fsops = 0 /\ DangerousOutcome)

\* a dangerous string naming nothing has been rejected as dangerous
C4_Witness ==
    /\ op = "safe_open"
    /\ pc = "done"
    /\ path = <<"/", "x", "/", ".", ".", "/", "y">>
    /\ fs_canonicalize(fs, path).kind = "Err"
    /\ result.kind = "DangerousPath"

\* the path names a symlink in a boundary directory that leads, through any
\* number of links, to a file outside every boundary
EscapingSymlink(p) ==
    \E l \in MutableLocs :
        /\ p = PathOf(l)
        /\ StrictlyUnderBoundary(l)
        /\ NodeAt(fs, l).kind = "link"
        /\ ResolveLoc(fs, p).kind = "Ok"
        /\ NodeAt(fs, ResolveLoc(fs, p).loc).kind = "file"
        /\ ~UnderBoundary(ResolveLoc(fs, p).loc)

ReadableFileInside(p) ==
    /\ ~DocumentedDangerous(p)
    /\ ResolveLoc(fs, p).kind = "Ok"
    /\ NodeAt(fs, ResolveLoc(fs, p).loc).kind = "file"
    /\ NodeAt(fs, ResolveLoc(fs, p).loc).readable
    /\ StrictlyUnderBoundary(ResolveLoc(fs, p).loc)

\* C6 as claimed: for every existing readable file strictly inside a
\* boundary, safe_open returns a handle and safe_open_read returns exactly
\* the content of the file.
C6_ReadReturnsContent ==
    (pc = "done" /\ ~changed /\ ReadableFileInside(path)) =>
        /\ op = "safe_open" =>
              /\ result.kind = "Ok"
              /\ result.file.loc = ResolveLoc(fs, path).loc
        /\ op = "safe_open_read" =>
              /\ result.kind = "Ok"
              /\ result.contents = NodeAt(fs, ResolveLoc(fs, path).loc).data

\* C6 as amended: for every existing readable file strictly inside a
\* boundary, safe_open returns a handle bound to it; safe_open_read returns
\* exactly its content when the content is valid UTF-8 and ReadFailed when it
\* is not.
C6_ReadReturnsUtf8Content ==
    (pc = "done" /\ ~changed /\ ReadableFileInside(path)) =>
        /\ op = "safe_open" =>
              /\ result.kind = "Ok"
              /\ result.file.loc = ResolveLoc(fs, path).loc
        /\ op = "safe_open_read" =>
              IF Utf8Valid(NodeAt(fs, ResolveLoc(fs, path).loc).data)
              THEN /\ result.kind = "Ok"
                   /\ result.contents = NodeAt(fs, ResolveLoc(fs, path).loc).data
              ELSE result.kind = "ReadFailed"

\* safe_open_read has returned the content of /b/f, reached through the
\* alias /t of the boundary directory
C6_Witness ==
    /\ op = "safe_open_read"
    /\ pc = "done"
    /\ ~changed
    /\ path = <<"/", "t", "/", "f">>
    /\ ReadableFileInside(path)
    /\ result.kind = "Ok"
    /\ result.contents = FileData(LocBF, fs[LocBF].gen)

\* the outcome of safe_open on an unchanging filesystem: that of the first
\* step that fails, in the order pattern check, open, canonicalize,
\* identity comparison, boundary test
FirstFailingStep(p) ==
    IF DocumentedDangerous(p) THEN "DangerousPath"
    ELSE IF File_open(fs, p).kind # "Ok" THEN "ResolutionFailed"
    ELSE IF fs_canonicalize(fs, p).kind # "Ok" THEN "ResolutionFailed"
    ELSE IF <<File_open(fs, p).file.dev, File_open(fs, p).file.ino>> #
            <<Identity(fs, ResolveLoc(fs, p).loc).dev,
              Identity(fs, ResolveLoc(fs, p).loc).ino>>
         THEN "TraversalDetected"
    ELSE IF ~UnderBoundary(ResolveLoc(fs, p).loc) THEN "OutsideBoundary"
    ELSE "Ok"

\* C7: the outcome of safe_open is that of the first failing step in the
\* fixed order; OutsideBoundary comes only after the open and the
\* canonicalization succeeded and the identities matched; a nonexistent path
\* without a dangerous pattern fails with ResolutionFailed and never with
\* OutsideBoundary, whatever the boundaries are.
C7_FirstFailingStepWins ==
    (op = "safe_open" /\ pc = "done") =>
        /\ result.kind \in {"OutsideBoundary", "TraversalDetected"} =>
              file # None /\ canonical # NoPath
        /\ result.kind = "OutsideBoundary" => result.path = canonical
        /\ ~changed =>
              /\ result.kind = FirstFailingStep(path)
              /\ result.kind = "OutsideBoundary" =>
                    fs_metadata(fs, canonical).meta = file
              /\ (~DocumentedDangerous(path)
                    /\ ResolveLoc(fs, path).kind = "Err"
                    /\ ResolveLoc(fs, path).errno = "ENOENT")
                    => result.kind = "ResolutionFailed"

\* safe_open on a path naming nothing, with no boundary that could hold it,
\* has failed with ResolutionFailed
C7_Witness ==
    /\ op = "safe_open"
    /\ pc = "done"
    /\ ~changed
    /\ path = <<"/", "b", "/", "x">>
    /\ domain.paths = <<>>
    /\ result.kind = "ResolutionFailed"

\* the reasons the detector gives
DetectorReasons == { DANGEROUS_PATTERNS[i][2] : i \in 1..Len(DANGEROUS_PATTERNS) }

\* C8: check_path blocks with the detector's reason when the raw string is
\* dangerous, else blocks with a resolution failure when the path cannot be
\* canonicalized, else allows exactly when the canonical path is inside the
\* domain and otherwise blocks naming the raw string and its canonical form;
\* Allow is given only for a canonical path a glob of the domain matches, and
\* the text of the reason tells the three causes apart.
C8_CheckPathOutcome ==
    (op = "check_path" /\ pc = "done") =>
        /\ result.kind \in {"Allow", "Block"}
        /\ result.kind = "Allow" =>
              /\ canonical # NoPath
              /\ \E i \in 1..Len(domain.paths) :
                    PathGlob_matches(fs, domain.paths[i], canonical)
        /\ ~changed =>
              IF DocumentedDangerous(path)
              THEN /\ result.kind = "Block"
                   /\ Len(result.reason) = 4
                   /\ result.reason[1] = "dangerous path detected: '"
                   /\ result.reason[2] = path
                   /\ result.reason[4] \in DetectorReasons
              ELSE IF ResolveLoc(fs, path).kind # "Ok"
              THEN /\ result.kind = "Block"
                   /\ Len(result.reason) = 2
                   /\ result.reason[1] = "path resolution failed: "
                   /\ result.reason[2][2] = path
              ELSE IF UnderBoundary(ResolveLoc(fs, path).loc)
              THEN result.kind = "Allow"
              ELSE /\ result.kind = "Block"
                   /\ Len(result.reason) = 5
                   /\ result.reason[1] = "path '"
                   /\ result.reason[2] = path
                   /\ result.reason[4] = PathOf(ResolveLoc(fs, path).loc)

\* check_path has blocked a symlink leading out of the domain, naming the raw
\* string and the canonical path
C8_Witness ==
    /\ op = "check_path"
    /\ pc = "done"
    /\ ~changed
    /\ path = PathOf(LocBL)
    /\ result.kind = "Block"
    /\ result.reason[1] = "path '"
    /\ result.reason[4] = PathOf(LocOS)
    /\ Len(domain.paths) = 2

-----------------------------------------------------------------------------
(* Glob matching on its own: Domain::path_allowed applied to one domain    *)
(* and one path, on the filesystem of the start                            *)

MaxPathLen == 5       \* every path text up to this length is an input

PathAlphabet == {"/", "b", "t", "f"}

\* paths under the home directory, for the globs that start with ~/
HomePaths == { PathOf(LocH), PathOf(LocH) \o <<"/", "f">>, PathOf(LocH) \o <<"f">>,
               PathOf(LocH) \o <<"/", "b", "/", "f">> }

GlobPaths == StringsUpTo(MaxPathLen, PathAlphabet) \cup HomePaths

\* a boundary directory and a glob configured for it: dir/*, or dir alone
DirGlobs ==
    UNION { { [dir |-> d, glob |-> GlobOfDir(d)], [dir |-> d, glob |-> d] } :
              d \in { PathOf(LocB), PathOf(LocT), <<"/", "f">>, <<"/", "b", "/", "b">> } }
    \cup { [dir |-> PathOf(LocH), glob |-> <<"~", "/", "*">>],
           [dir |-> PathOf(LocH) \o <<"/", "b">>, glob |-> <<"~", "/", "b", "/", "*">>] }

\* globs that are not a directory followed by /*
OtherGlobs ==
    { [dir |-> NoPath, glob |-> g] :
        g \in { <<"/", "b", "*">>, <<"/", "b", "*", "f">>, <<"/", "b", "/", "*", "f">>,
                <<"*">>, <<"/", "*">>, <<"*", "/", "f">> } }

\* the domains: one glob, or two
GlobDomains ==
    { <<x>> : x \in DirGlobs \cup OtherGlobs }
    \cup { << [dir |-> <<"/", "f">>, glob |-> <<"/", "f", "/", "*">>],
              [dir |-> PathOf(LocB), glob |-> <<"/", "b", "/", "*">>] >>,
           << [dir |-> PathOf(LocT), glob |-> PathOf(LocT)],
              [dir |-> <<"/", "f">>, glob |-> <<"/", "f", "/", "*">>] >> }

InitGlob ==
    /\ InitIdle
    /\ \E d \in GlobDomains, q \in GlobPaths :
          inp = [dirs  |-> [i \in 1..Len(d) |-> d[i].dir],
                 globs |-> [i \in 1..Len(d) |-> d[i].glob],
                 p     |-> q]

\* path_allowed is asked about the path; the answer of every glob is kept
PathAllowedCall ==
    /\ out = None
    /\ out' = [allowed |-> path_allowed(fs, [name |-> "test", paths |-> inp.globs],
                                        inp.p),
               each    |-> [i \in 1..Len(inp.globs) |->
                               PathGlob_matches(fs, inp.globs[i], inp.p)]]
    /\ UNCHANGED <<fs, op, pc, path, domain, bdirs, file, canonical, result,
                   fsops, changed, totalMuts, inp, regVars>>

NextGlob == PathAllowedCall

SpecGlob == InitGlob /\ [][NextGlob]_vars

\* the path is the directory followed by / and a nonempty rest
BelowDirText(q, dir) ==
    /\ Len(q) > Len(dir) + 1
    /\ SubSeq(q, 1, Len(dir) + 1) = dir \o <<"/">>

\* the absolute path lies neither in the directory as written nor in the
\* directory it really is
OutsideDir(q, dir) ==
    /\ ~IsPrefixSeq(WalkNames(dir), WalkNames(q))
    /\ ResolveLoc(fs, dir).kind = "Ok" =>
          ~IsPrefixSeq(ResolveLoc(fs, dir).loc, WalkNames(q))

\* C9: path_allowed(p) holds exactly when one of the domain's globs matches
\* p; it holds for every path that is a boundary directory plus a nonempty
\* relative suffix, and fails for every absolute path outside every boundary
\* directory of the domain.
C9_PathAllowedIffInsideBoundary ==
    out # None =>
        /\ out.allowed <=> \E i \in 1..Len(inp.globs) : out.each[i]
        /\ \A i \in 1..Len(inp.globs) :
              (inp.dirs[i] # NoPath /\ BelowDirText(inp.p, inp.dirs[i]))
                  => out.allowed
        /\ ( /\ inp.p # <<>>
             /\ inp.p[1] = "/"
             /\ \A i \in 1..Len(inp.globs) :
                   inp.dirs[i] # NoPath /\ OutsideDir(inp.p, inp.dirs[i]) )
              => ~out.allowed

\* a path below the second boundary directory of a domain has been allowed
C9_Witness ==
    /\ out # None
    /\ inp.globs = << <<"/", "f", "/", "*">>, <<"/", "b", "/", "*">> >>
    /\ inp.p = <<"/", "b", "/", "f">>
    /\ out.allowed
    /\ ~out.each[1]

\* the text of the expanded glob before its first `*`
TextBeforeStar(glob) ==
    LET e == PathGlob_expand(glob)
        n == IF \E k \in 1..Len(e) : e[k] = "*"
             THEN CHOOSE k \in 1..Len(e) :
                     e[k] = "*" /\ \A j \in 1..(k - 1) : e[j] # "*"
             ELSE Len(e) + 1
    IN  SubSeq(e, 1, n - 1)

\* C10 as claimed: matches(path) holds whenever the text of the path starts
\* with the glob's literal prefix, also when the prefix ends in the middle of
\* a path component.
C10_TextPrefixMatches ==
    out # None =>
        \A i \in 1..Len(inp.globs) :
            StartsWith(inp.p, TextBeforeStar(inp.globs[i])) => out.each[i]

\* the prefix ends where a component of the path ends
AtComponentEnd(q, pre) ==
    \/ pre = <<>>
    \/ pre[Len(pre)] = "/"
    \/ Len(q) = Len(pre)
    \/ q[Len(pre) + 1] = "/"

\* the absolute path lies in the directory the trimmed prefix really is
UnderCanonicalPrefix(q, pre) ==
    LET r == ResolveLoc(fs, trim_end_matches(pre, "/"))
    IN  /\ r.kind = "Ok"
        /\ q # <<>>
        /\ q[1] = "/"
        /\ IsPrefixSeq(r.loc, WalkNames(q))

\* C10 as amended: matches(path) holds whenever the text of the path starts
\* with the glob's literal prefix and the prefix ends at the end of a path
\* component; when the prefix ends in the middle of a component the glob
\* matches only if its pattern matches the path or the path lies under the
\* canonicalized prefix: a boundary /b does not match /bb/f.
C10_ComponentPrefixMatches ==
    out # None =>
        \A i \in 1..Len(inp.globs) :
            StartsWith(inp.p, TextBeforeStar(inp.globs[i])) =>
                IF AtComponentEnd(inp.p, TextBeforeStar(inp.globs[i]))
                THEN out.each[i]
                ELSE out.each[i] <=>
                        \/ GlobMatch(PathGlob_expand(inp.globs[i]), inp.p)
                        \/ UnderCanonicalPrefix(inp.p, TextBeforeStar(inp.globs[i]))

\* the boundary /b has been asked about /bb/f and did not match
C10_Witness ==
    /\ out # None
    /\ inp.globs = << <<"/", "b">> >>
    /\ inp.p = <<"/", "b", "b", "/", "f">>
    /\ ~out.each[1]


-----------------------------------------------------------------------------
(* Vault files: src/src/vault/reader.rs, frontmatter.rs, types.rs          *)
(*                                                                         *)
(* The text of a file is the sequence of its lines, a line being one of    *)
(*   Sep            ---                                                    *)
(*   Yaml(k, v)     k: v                                                   *)
(*   BadYaml        a line serde_yaml refuses                              *)
(*   Heading(t)     ## t                                                   *)
(*   Bullet(item)   - item                                                 *)
(*   TextLine       any other line                                         *)

Sep == [k |-> "sep"]
Yaml(key, val) == [k |-> "yaml", key |-> key, val |-> val]
BadYaml == [k |-> "badyaml"]
Heading(t) == [k |-> "heading", text |-> t]
Bullet(item) == [k |-> "bullet", item |-> item]
TextLine == [k |-> "text"]

NoFile == [kind |-> "absent"]
\* a regular file holding the lines
VaultText(lines) == [kind |-> "file", readable |-> TRUE, lines |-> lines]
\* a file read_to_string fails on
Unreadable == [kind |-> "file", readable |-> FALSE, lines |-> <<>>]

\* char::is_whitespace, for the characters the texts are made of
is_whitespace(c) == c \in {" ", "\t", "\n"}

RECURSIVE trim_start(_)
\* str::trim_start
trim_start(s) == IF s # <<>> /\ is_whitespace(Head(s)) THEN trim_start(Tail(s)) ELSE s

RECURSIVE trim_end(_)
\* str::trim_end
trim_end(s) ==
    IF s # <<>> /\ is_whitespace(s[Len(s)]) THEN trim_end(SubSeq(s, 1, Len(s) - 1)) ELSE s

\* str::trim
trim(s) == trim_end(trim_start(s))

\* index of the first line of the kind at or after position i, 0 if none
FirstLineFrom(lines, i, kind) ==
    IF \E j \in i..Len(lines) : lines[j].k = kind
    THEN CHOOSE j \in i..Len(lines) :
            /\ lines[j].k = kind
            /\ \A h \in i..(j - 1) : lines[h].k # kind
    ELSE 0

\* the value serde hands to the field: the value of the line with the key
YamlField(yaml, key, default) ==
    IF \E i \in 1..Len(yaml) : yaml[i].key = key
    THEN yaml[CHOOSE i \in 1..Len(yaml) : yaml[i].key = key].val
    ELSE default

\* an Option<String> field: <<v>> for Some(v) and <<>> for None
Some_or_none(yaml, key) ==
    IF \E i \in 1..Len(yaml) : yaml[i].key = key
    THEN <<YamlField(yaml, key, <<>>)>>
    ELSE <<>>

\* VaultType's Deserialize: unknown types become Reference
VaultType_deserialize(str) ==
    IF str \in {"project", "decision", "insight", "thread", "domain", "reference"}
    THEN str
    ELSE "reference"

\* a deserializer taking `proposed` for `confirmed`
deserialize_lenient_confidence_Promote(opt) ==
    IF opt \in {"inferred", "confirmed"} THEN opt
    ELSE IF opt = "proposed" THEN "confirmed"
    ELSE "none"

\* deserialize_lenient_confidence: unknown values become None
deserialize_lenient_confidence(opt) ==
    IF opt \in {"inferred", "proposed", "confirmed"} THEN opt ELSE "none"

\* serde_yaml::from_str::<Frontmatter>: an empty document, a malformed line
\* and a field given twice are errors; absent fields take their defaults
Frontmatter_from_yaml(yaml) ==
    IF \/ yaml = <<>>
       \/ \E i \in 1..Len(yaml) : yaml[i].k # "yaml"
       \/ \E i, j \in 1..Len(yaml) : i # j /\ yaml[i].key = yaml[j].key
    THEN [kind |-> "Err"]
    ELSE [kind |-> "Ok",
          frontmatter |->
            [file_type  |-> VaultType_deserialize(YamlField(yaml, "type", "reference")),
             domain     |-> Some_or_none(yaml, "domain"),
             confidence |-> deserialize_lenient_confidence(
                                YamlField(yaml, "confidence", "none")),
             can_read   |-> YamlField(yaml, "can_read", <<>>)]]

\* parse_frontmatter
parse_frontmatter(lines) ==
    IF lines = <<>> \/ lines[1].k # "sep"
    THEN [kind |-> "NoFrontmatter"]
    ELSE LET closing == FirstLineFrom(lines, 2, "sep")
         IN  IF closing = 0
             THEN [kind |-> "UnclosedFrontmatter"]
             ELSE LET fm == Frontmatter_from_yaml(SubSeq(lines, 2, closing - 1))
                  IN  IF fm.kind = "Err"
                      THEN [kind |-> "Parse"]
                      ELSE [kind |-> "Ok",
                            frontmatter |-> fm.frontmatter,
                            body |-> SubSeq(lines, closing + 1, Len(lines))]

\* the Frontmatter read_file makes up for a file without frontmatter
DefaultFrontmatter ==
    [file_type |-> "reference", domain |-> <<>>, confidence |-> "none",
     can_read |-> <<>>]

\* vault::reader::read_file
read_file(vpath, content) ==
    IF content.kind # "file" \/ ~content.readable
    THEN [kind |-> "Io"]
    ELSE LET parsed == parse_frontmatter(content.lines)
         IN  CASE parsed.kind = "Ok" ->
                    [kind |-> "Ok", path |-> vpath,
                     frontmatter |-> parsed.frontmatter, body |-> parsed.body]
               [] parsed.kind \in {"NoFrontmatter", "UnclosedFrontmatter"} ->
                    [kind |-> "Ok", path |-> vpath,
                     frontmatter |-> DefaultFrontmatter, body |-> content.lines]
               [] OTHER -> [kind |-> "Parse"]

-----------------------------------------------------------------------------
(* Domains built from vault files: src/src/domain/model.rs,                *)
(* src/src/config/types.rs                                                 *)

\* DomainName::new testing for `/` only
DomainName_new_SlashOnly(name) ==
    LET trimmed == trim(name)
    IN  IF trimmed = <<>>
        THEN [kind |-> "InvalidDomainName", reason |-> "domain name cannot be empty"]
        ELSE IF \E i \in 1..Len(trimmed) : trimmed[i] = "/"
        THEN [kind |-> "InvalidDomainName",
              reason |-> "domain name cannot contain path separators"]
        ELSE [kind |-> "Ok", name |-> trimmed]

\* DomainName::new
DomainName_new(name) ==
    LET trimmed == trim(name)
    IN  IF trimmed = <<>>
        THEN [kind |-> "InvalidDomainName", reason |-> "domain name cannot be empty"]
        ELSE IF \E i \in 1..Len(trimmed) : trimmed[i] \in {"/", "\\"}
        THEN [kind |-> "InvalidDomainName",
              reason |-> "domain name cannot contain path separators"]
        ELSE [kind |-> "Ok", name |-> trimmed]

\* TryFrom<String> for DomainName, which serde deserializes through
DomainName_try_from(str) == DomainName_new(str)

\* PathGlob::new
PathGlob_new(pattern) ==
    LET trimmed == trim(pattern)
    IN  IF trimmed = <<>>
        THEN [kind |-> "InvalidPathGlob", reason |-> "path glob cannot be empty"]
        ELSE IF ~GlobSyntaxOk(trimmed)
        THEN [kind |-> "InvalidPathGlob", reason |-> "invalid glob syntax"]
        ELSE [kind |-> "Ok", glob |-> trimmed]

\* str::split_once(": "): <<before, after>> in a one-element sequence, or <<>>
split_once_colon(item) ==
    IF \E i \in 1..(Len(item) - 1) : item[i] = ":" /\ item[i + 1] = " "
    THEN LET i == CHOOSE k \in 1..(Len(item) - 1) :
                    /\ item[k] = ":" /\ item[k + 1] = " "
                    /\ \A h \in 1..(k - 1) : ~(item[h] = ":" /\ item[h + 1] = " ")
         IN  << <<SubSeq(item, 1, i - 1), SubSeq(item, i + 2, Len(item))>> >>
    ELSE <<>>

\* an insert that leaves the value of a key already present
MapInsert_KeepFirst(m, key, val) ==
    IF \E kv \in m : kv[1] = key THEN m ELSE m \cup {<<key, val>>}

\* HashMap::insert on a map kept as the set of its <<key, value>> pairs
MapInsert(m, key, val) == {kv \in m : kv[1] # key} \cup {<<key, val>>}

\* Path::file_stem of a vault path
file_stem(vpath) == vpath.stem

\* a bullet of the `## Paths` section: model.rs:79-81, an invalid pattern is
\* passed over
PathBullet(paths, item) ==
    IF PathGlob_new(item).kind = "Ok"
    THEN Append(paths, PathGlob_new(item).glob)
    ELSE paths

\* what the loop takes a line of text for: the tests of model.rs:60-74.  In
\* the lines of the model the words `Paths` and `Aliases` are one character.
LineOfText(line) ==
    IF StartsWith(line, <<"#", "#", " ", "Paths">>) THEN Heading("Paths")
    ELSE IF StartsWith(line, <<"#", "#", " ", "Aliases">>) THEN Heading("Aliases")
    ELSE IF StartsWith(line, <<"#", "#", " ">>)
    THEN Heading(SubSeq(line, 4, Len(line)))
    ELSE LET trimmed == trim(line)
         IN  IF trimmed = <<>> \/ ~StartsWith(trimmed, <<"-", " ">>)
             THEN TextLine
             ELSE Bullet(SubSeq(trimmed, 3, Len(trimmed)))

RECURSIVE ScanBody(_, _, _, _, _)
\* the loop over the lines of the body: model.rs:59-90
ScanBody(body, i, current_section, paths, aliases) ==
    IF i > Len(body)
    THEN [paths |-> paths, aliases |-> aliases]
    ELSE LET line == body[i]
         IN  IF line.k = "heading"
             THEN ScanBody(body, i + 1,
                           IF line.text = "Paths" THEN "paths"
                           ELSE IF line.text = "Aliases" THEN "aliases"
                           ELSE "none",
                           paths, aliases)
             ELSE IF line.k # "bullet"
             THEN ScanBody(body, i + 1, current_section, paths, aliases)
             ELSE IF current_section = "paths"
             THEN ScanBody(body, i + 1, current_section,
                           PathBullet(paths, line.item), aliases)
             ELSE IF current_section = "aliases"
             THEN LET kv == split_once_colon(line.item)
                  IN  ScanBody(body, i + 1, current_section, paths,
                               IF kv # <<>>
                               THEN MapInsert(aliases, trim(kv[1][1]), trim(kv[1][2]))
                               ELSE aliases)
             ELSE ScanBody(body, i + 1, current_section, paths, aliases)

\* Domain::from_vault_file
from_vault_file(vf) ==
    IF vf.frontmatter.file_type # "domain"
    THEN [kind |-> "InvalidDomainName", reason |-> "not a domain vault file"]
    ELSE IF vf.frontmatter.confidence # "confirmed"
    THEN [kind |-> "InvalidDomainName", reason |-> "domain not confirmed"]
    ELSE LET name_str == IF vf.frontmatter.domain # <<>>
                         THEN vf.frontmatter.domain[1]
                         ELSE file_stem(vf.path)
             name     == DomainName_new(name_str)
             scanned  == ScanBody(vf.body, 1, "none", <<>>, {})
         IN  IF name.kind # "Ok" THEN name
             ELSE [kind |-> "Ok",
                   domain |-> [name     |-> name.name,
                               paths    |-> scanned.paths,
                               aliases  |-> scanned.aliases,
                               can_read |-> vf.frontmatter.can_read]]

-----------------------------------------------------------------------------
(* DomainRegistry: src/src/domain/registry.rs                              *)

\* the files of the vault: two domain files, a text file beside them and a
\* note outside of domains/
VaultPath(dir, stem, ext) == [dir |-> dir, stem |-> stem, ext |-> ext]
DomainsA == VaultPath("domains", <<"a">>, "md")
DomainsB == VaultPath("domains", <<"b">>, "md")
DomainsT == VaultPath("domains", <<"c">>, "txt")
NotesN   == VaultPath("notes", <<"n">>, "md")
VaultPaths == {DomainsA, DomainsB, DomainsT, NotesN}

\* Path::extension
extension(vpath) == vpath.ext

\* path.starts_with(vault_root.join("domains"))
UnderDomains(vpath) == vpath.dir = "domains"

\* the entries of vault_root/domains/
DirEntries(v) == {f \in VaultPaths : UnderDomains(f) /\ v.files[f].kind # "absent"}

\* the orders read_dir can list a set of entries in
RECURSIVE ListingsOf(_)
ListingsOf(S) ==
    IF S = {} THEN {<<>>}
    ELSE UNION {{<<f>> \o l : l \in ListingsOf(S \ {f})} : f \in S}

\* read_dir of vault_root/domains/
read_dir(v) == ListingsOf(DirEntries(v))

RECURSIVE LoadEntries(_, _, _, _)
\* the loop of from_vault over the listed entries: registry.rs:26-48
LoadEntries(v, entries, i, domains) ==
    IF i > Len(entries) THEN domains
    ELSE LET vpath == entries[i]
             vf    == read_file(vpath, v.files[vpath])
         IN  IF extension(vpath) # "md"
             THEN LoadEntries(v, entries, i + 1, domains)
             ELSE IF vf.kind # "Ok"
             THEN LoadEntries(v, entries, i + 1, domains)
             ELSE IF vf.frontmatter.file_type # "domain"
             THEN LoadEntries(v, entries, i + 1, domains)
             ELSE IF vf.frontmatter.confidence # "confirmed"
             THEN LoadEntries(v, entries, i + 1, domains)
             ELSE IF from_vault_file(vf).kind = "Ok"
             THEN LoadEntries(v, entries, i + 1,
                              Append(domains, from_vault_file(vf).domain))
             ELSE LoadEntries(v, entries, i + 1, domains)

\* DomainRegistry::from_vault, the directory being listed in the order
\* `entries`
from_vault(v, entries) ==
    IF ~v.has_domains THEN <<>>
    ELSE LoadEntries(v, entries, 1, <<>>)

\* DomainRegistry::from_domains
from_domains(domains) == domains

\* DomainRegistry::is_empty
is_empty(reg) == reg = <<>>

\* DomainRegistry::all
all(reg) == reg

\* DomainRegistry::names
names(reg) == [i \in 1..Len(reg) |-> reg[i].name]

\* DomainRegistry::find
find(reg, name) ==
    IF \E i \in 1..Len(reg) : reg[i].name = name
    THEN <<reg[CHOOSE i \in 1..Len(reg) :
                /\ reg[i].name = name
                /\ \A j \in 1..(i - 1) : reg[j].name # name]>>
    ELSE <<>>

\* the closure comparing the texts
GlobHoldsCwd_Textual(glob, cwd) ==
    StartsWith(cwd, trim_end_matches(LiteralPrefix(PathGlob_expand(glob)), "/"))

\* the closure of DomainRegistry::resolve on one glob: registry.rs:66-72
GlobHoldsCwd(glob, cwd) ==
    PathStartsWith(cwd, trim_end_matches(LiteralPrefix(PathGlob_expand(glob)), "/"))

\* the last matching domain instead of the first
registry_resolve_Last(reg, cwd) ==
    LET hits == {i \in 1..Len(reg) :
                    \E j \in 1..Len(reg[i].paths) : GlobHoldsCwd(reg[i].paths[j], cwd)}
    IN  IF hits = {} THEN <<>>
        ELSE <<reg[CHOOSE i \in hits : \A h \in hits : h <= i]>>

\* DomainRegistry::resolve: <<d>> for Some(d), <<>> for None
registry_resolve(reg, cwd) ==
    LET hits == {i \in 1..Len(reg) :
                    \E j \in 1..Len(reg[i].paths) : GlobHoldsCwd(reg[i].paths[j], cwd)}
    IN  IF hits = {} THEN <<>>
        ELSE <<reg[CHOOSE i \in hits : \A h \in hits : i <= h]>>

-----------------------------------------------------------------------------
(* from_vault on every vault made of the domain files below                *)

\* the frontmatter lines of a domain file
Front(yaml) == <<Sep>> \o yaml \o <<Sep>>
TypeDomain == Yaml("type", "domain")
Confirmed  == Yaml("confidence", "confirmed")
NameW      == Yaml("domain", <<"w">>)

GlobB   == <<"/", "b", "/", "*">>
GlobM   == <<"/", "m", "/", "*">>
GlobO   == <<"/", "o", "/", "*">>
GlobBad == <<"/", "m", "/", "[">>
PathsB  == <<Heading("Paths"), Bullet(GlobB)>>
PathsM  == <<Heading("Paths"), Bullet(GlobM)>>
PathsO  == <<Heading("Paths"), Bullet(GlobO)>>

\* confirmed domain files PathGlob::new accepts every path bullet of
ConfirmedW ==
    VaultText(Front(<<TypeDomain, NameW, Confirmed>>) \o PathsB
              \o <<TextLine, Heading("Aliases"),
                   Bullet(<<"c", ":", " ", "/", "b">>)>>)
ConfirmedStem == VaultText(Front(<<Confirmed, TypeDomain>>) \o PathsM)
ConfirmedNoPaths == VaultText(Front(<<TypeDomain, Confirmed>>))
ConfirmedOtherSection ==
    VaultText(Front(<<TypeDomain, Confirmed>>) \o PathsM
              \o <<Heading("Notes"), Bullet(GlobO)>>)
WellFormedConfirmed ==
    {ConfirmedW, ConfirmedStem, ConfirmedNoPaths, ConfirmedOtherSection}

\* confirmed domain files holding a path bullet PathGlob::new refuses
ConfirmedMixedPaths ==
    VaultText(Front(<<TypeDomain, Confirmed>>)
              \o <<Heading("Paths"), Bullet(GlobB), Bullet(GlobBad)>>)
ConfirmedBadPathFirst ==
    VaultText(Front(<<TypeDomain, NameW, Confirmed>>)
              \o <<Heading("Paths"), Bullet(GlobBad), Bullet(GlobM)>>)
InvalidPathConfirmed == {ConfirmedMixedPaths, ConfirmedBadPathFirst}

\* files that do not declare type domain and confidence confirmed
Proposed == VaultText(Front(<<TypeDomain, Yaml("confidence", "proposed")>>) \o PathsO)
Inferred == VaultText(Front(<<TypeDomain, Yaml("confidence", "inferred")>>) \o PathsO)
NoConfidence == VaultText(Front(<<TypeDomain>>) \o PathsO)
UnknownConfidence ==
    VaultText(Front(<<TypeDomain, Yaml("confidence", "high")>>) \o PathsO)
WrongType == VaultText(Front(<<Yaml("type", "project"), Confirmed>>) \o PathsO)
UnknownType == VaultText(Front(<<Yaml("type", "Domain"), Confirmed>>) \o PathsO)
NoType == VaultText(Front(<<Confirmed>>) \o PathsO)
NoFrontmatter == VaultText(<<TextLine>> \o PathsO)
Disqualified ==
    {Proposed, Inferred, NoConfidence, UnknownConfidence, WrongType,
     UnknownType, NoType, NoFrontmatter}

\* unreadable and malformed files
UnclosedFrontmatter == VaultText(<<Sep, TypeDomain, Confirmed>> \o PathsO)
BadYamlFile == VaultText(Front(<<TypeDomain, BadYaml, Confirmed>>) \o PathsO)
TwiceConfidence ==
    VaultText(Front(<<TypeDomain, Yaml("confidence", "proposed"), Confirmed>>)
              \o PathsO)
BadName ==
    VaultText(Front(<<TypeDomain, Yaml("domain", <<"a", "/", "b">>), Confirmed>>)
              \o PathsO)
EmptyName ==
    VaultText(Front(<<TypeDomain, Yaml("domain", <<" ">>), Confirmed>>) \o PathsO)
Malformed ==
    {Unreadable, UnclosedFrontmatter, BadYamlFile, TwiceConfidence, BadName,
     EmptyName}

DomainFileContents ==
    WellFormedConfirmed \cup InvalidPathConfirmed \cup Disqualified \cup Malformed

\* a vault holding the contents a and b in domains/a.md and domains/b.md and
\* the content t in domains/c.txt
VaultOf(a, b, t) ==
    [has_domains |-> TRUE,
     files |-> [f \in VaultPaths |->
                  CASE f = DomainsA -> a
                    [] f = DomainsB -> b
                    [] f = DomainsT -> t
                    [] OTHER -> NoFile]]

\* a vault without a domains/ directory
VaultNoDomains == [has_domains |-> FALSE, files |-> [f \in VaultPaths |-> NoFile]]

FromVaultInputs ==
    {[vault |-> VaultNoDomains, entries |-> <<>>]}
    \cup UNION {{[vault |-> VaultOf(a, b, t), entries |-> l] :
                    l \in read_dir(VaultOf(a, b, t))} :
                <<a, b, t>> \in (DomainFileContents \cup {NoFile})
                                \X (DomainFileContents \cup {NoFile})
                                \X {NoFile, ConfirmedW}}

InitFromVault ==
    /\ InitIdle
    /\ inp \in FromVaultInputs

\* from_vault is applied to the vault
FromVaultCall ==
    /\ out = None
    /\ out' = [kind |-> "Registry",
               registry |-> from_vault(inp.vault, inp.entries)]
    /\ UNCHANGED <<fs, op, pc, path, domain, bdirs, file, canonical, result,
                   fsops, changed, totalMuts, inp, regVars>>

NextFromVault == FromVaultCall

SpecFromVault == InitFromVault /\ [][NextFromVault]_vars

\* the listed .md entries of domains/ holding a content of the set
EntriesHolding(contents) ==
    SelectSeq(inp.entries,
              LAMBDA f : extension(f) = "md" /\ inp.vault.files[f] \in contents)

\* the vault of the input without the entries of domains/ that are no .md
\* file declaring type domain and confidence confirmed with a valid name
VaultOfQualifying ==
    [inp.vault EXCEPT !.files =
        [f \in VaultPaths |->
            IF /\ extension(f) = "md"
               /\ inp.vault.files[f] \in WellFormedConfirmed \cup InvalidPathConfirmed
            THEN inp.vault.files[f]
            ELSE NoFile]]

\* C11: from_vault loads a domain only from a file under domains/ that
\* declares type domain and confidence confirmed: the registry holds one
\* domain per such file and none for a file whose confidence is proposed,
\* inferred, missing or unrecognized, whose type is not domain, or which is
\* unreadable or malformed (none of their paths is served by all(), find()
\* or resolve()); and the registry is the one the qualifying files alone
\* would give, so the other files neither remove nor alter a loaded domain.
C11_ConfirmedOnlyLoading ==
    out # None =>
        /\ Len(all(out.registry))
              = Len(EntriesHolding(WellFormedConfirmed \cup InvalidPathConfirmed))
        /\ \A i \in 1..Len(all(out.registry)) :
              \A j \in 1..Len(out.registry[i].paths) :
                  out.registry[i].paths[j] # GlobO
        /\ registry_resolve(out.registry, <<"/", "o", "/", "s">>) = <<>>
        /\ \A f \in DirEntries(inp.vault) :
              inp.vault.files[f] \in Disqualified \cup Malformed
                  => /\ find(out.registry, file_stem(f)) = <<>>
                     /\ from_vault(VaultOf(inp.vault.files[f], NoFile, NoFile),
                                   <<DomainsA>>) = <<>>
        /\ out.registry
              = from_vault(VaultOfQualifying,
                           EntriesHolding(WellFormedConfirmed
                                          \cup InvalidPathConfirmed))
        /\ names(out.registry)
              = names(from_vault(VaultOfQualifying,
                                 EntriesHolding(WellFormedConfirmed
                                                \cup InvalidPathConfirmed)))

\* an inferred domain file was listed before a confirmed one, and the
\* registry holds the confirmed domain alone
C11_Witness ==
    /\ out # None
    /\ inp.entries = <<DomainsA, DomainsB>>
    /\ inp.vault.files[DomainsA] = Inferred
    /\ inp.vault.files[DomainsB] = ConfirmedW
    /\ names(out.registry) = << <<"w">> >>
    /\ out.registry[1].paths = <<GlobB>>

\* C12 as claimed: a confirmed domain file with a path bullet PathGlob
\* validation refuses is skipped as a whole: the registry holds domains of
\* the files with valid path bullets only.
C12_InvalidPathSkipsDomain ==
    out # None =>
        /\ Len(out.registry) = Len(EntriesHolding(WellFormedConfirmed))
        /\ \A i \in 1..Len(out.registry) :
              \E f \in DirEntries(inp.vault) :
                  /\ inp.vault.files[f] \in WellFormedConfirmed
                  /\ from_vault_file(read_file(f, inp.vault.files[f])).domain
                        = out.registry[i]

-----------------------------------------------------------------------------
(* DomainRegistry::resolve on its own: a registry of up to two domains and *)
(* a working directory                                                     *)

DomainOf(name, globs) ==
    [name |-> name, paths |-> globs, aliases |-> {}, can_read |-> <<>>]

\* the domains registries are made of
ResolveDomains ==
    { DomainOf(<<"b">>, <<GlobB>>),
      DomainOf(<<"d">>, << <<"/", "b">> >>),
      DomainOf(<<"s">>, << <<"/", "b", "*">> >>),
      DomainOf(<<"f">>, << <<"/", "t", "/", "*">>, <<"/", "b", "/", "f", "/", "*">> >>),
      DomainOf(<<"h">>, << <<"~", "/", "*">> >>),
      DomainOf(<<"r">>, << <<"/", "*">> >>),
      DomainOf(<<"a">>, << <<"/", "t">>, <<"*", "/", "f">> >>),
      DomainOf(<<"e">>, <<>>) }

Registries ==
    {<<>>} \cup {<<d>> : d \in ResolveDomains}
    \cup {<<d, e>> : <<d, e>> \in {x \in ResolveDomains \X ResolveDomains : x[1] # x[2]}}

\* the working directories: every path text, the default `.` and the home
WorkingDirs == GlobPaths \cup {<<".">>}

InitResolve ==
    /\ InitIdle
    /\ \E r \in Registries, c \in WorkingDirs : inp = [registry |-> r, cwd |-> c]

\* resolve is applied to the working directory, and path_allowed of every
\* domain of the registry to the same path
ResolveCall ==
    /\ out = None
    /\ out' = [kind |-> "Resolved",
               domain |-> registry_resolve(inp.registry, inp.cwd),
               allowed |-> [i \in 1..Len(inp.registry) |->
                               path_allowed(fs, inp.registry[i], inp.cwd)]]
    /\ UNCHANGED <<fs, op, pc, path, domain, bdirs, file, canonical, result,
                   fsops, changed, totalMuts, inp, regVars>>

NextResolve == ResolveCall

SpecResolve == InitResolve /\ [][NextResolve]_vars

\* the domains of the input registry with a glob satisfying the test
DomainsWith(Test(_, _)) ==
    {i \in 1..Len(inp.registry) :
        \E j \in 1..Len(inp.registry[i].paths) :
            Test(inp.registry[i].paths[j], inp.cwd)}

\* the answer resolve owes when the domains of the set qualify
FirstOf(hits) ==
    IF hits = {} THEN <<>>
    ELSE <<inp.registry[CHOOSE i \in hits : \A h \in hits : i <= h]>>

\* the literal prefix of the glob, as a path, is a prefix of the directory
LiteralPrefixHolds(glob, cwd) ==
    IsPrefixSeq(Components(TextBeforeStar(glob)), Components(cwd))

\* the same with the trailing slashes of the literal prefix removed first:
\* the prefix `/` becomes the empty path, which is a prefix of every path
TrimmedPrefixHolds(glob, cwd) ==
    LET pre == TextBeforeStar(glob)
        n   == IF \E k \in 1..Len(pre) : pre[k] # "/"
               THEN CHOOSE k \in 1..Len(pre) :
                       pre[k] # "/" /\ \A j \in (k + 1)..Len(pre) : pre[j] = "/"
               ELSE 0
    IN  IsPrefixSeq(Components(SubSeq(pre, 1, n)), Components(cwd))

\* C13 as claimed: resolve(cwd) is the first domain, in registration order,
\* with a glob whose literal prefix (the home-expanded text before the first
\* `*`) is a prefix of cwd, and None when there is no such domain.
C13_ResolveFirstPrefix ==
    out # None => out.domain = FirstOf(DomainsWith(LiteralPrefixHolds))

\* C13 as amended: resolve(cwd) is the first domain, in registration order,
\* with a glob whose literal prefix, its trailing slashes removed, is a
\* prefix of cwd by whole path components, and None when there is no such
\* domain; a literal prefix that is empty or `/` holds every cwd, a relative
\* one included.
C13_ResolveFirstTrimmedPrefix ==
    out # None => out.domain = FirstOf(DomainsWith(TrimmedPrefixHolds))

\* two domains hold /b/f and the one registered first was returned, and not
\* because it is the only one with a matching glob pattern
C13_Witness ==
    /\ out # None
    /\ inp.cwd = <<"/", "b", "/", "f">>
    /\ Len(inp.registry) = 2
    /\ inp.registry[1].name = <<"d">>
    /\ inp.registry[2].name = <<"b">>
    /\ out.domain = <<inp.registry[1]>>

-----------------------------------------------------------------------------
(* Configuration load: src/src/config/loader.rs                            *)

\* a RawDomainEntry under its key in the `domains` map of config.yml
ConfigEntry(name, paths, aliases) ==
    [name |-> name, paths |-> paths, aliases |-> aliases, can_read |-> <<>>]

RECURSIVE ConfigPaths(_, _)
\* the loop over entry.paths: loader.rs:106-109; <<globs>> or <<>> for `?`
ConfigPaths(raw, i) ==
    IF i > Len(raw) THEN << <<>> >>
    ELSE LET rest == ConfigPaths(raw, i + 1)
         IN  IF PathGlob_new(raw[i]).kind # "Ok" \/ rest = <<>> THEN <<>>
             ELSE << <<PathGlob_new(raw[i]).glob>> \o rest[1] >>

RECURSIVE ConfigDomains(_, _)
\* the loop over raw.domains in the order the HashMap yields them:
\* loader.rs:103-116; <<domains>>, or <<>> when an entry is refused
ConfigDomains(entries, i) ==
    IF i > Len(entries) THEN << <<>> >>
    ELSE LET name  == DomainName_new(entries[i].name)
             paths == ConfigPaths(entries[i].paths, 1)
             rest  == ConfigDomains(entries, i + 1)
         IN  IF name.kind # "Ok" \/ paths = <<>> \/ rest = <<>> THEN <<>>
             ELSE << <<[name     |-> name.name,
                        paths    |-> paths[1],
                        aliases  |-> entries[i].aliases,
                        can_read |-> entries[i].can_read]>> \o rest[1] >>

\* load taking the configured domains whenever there are any
load_ConfigFirst(v, listing, raw_domains) ==
    IF raw_domains # <<>>
    THEN IF ConfigDomains(raw_domains, 1) = <<>>
         THEN [kind |-> "Err"]
         ELSE [kind |-> "Ok", registry |-> from_domains(ConfigDomains(raw_domains, 1)[1])]
    ELSE [kind |-> "Ok", registry |-> from_vault(v, listing)]

\* config::loader::load, from the vault registry on: loader.rs:96-120
load(v, listing, raw_domains) ==
    LET vault_registry == from_vault(v, listing)
    IN  IF ~is_empty(vault_registry)
        THEN [kind |-> "Ok", registry |-> vault_registry]
        ELSE IF raw_domains # <<>>
        THEN IF ConfigDomains(raw_domains, 1) = <<>>
             THEN [kind |-> "Err"]
             ELSE [kind |-> "Ok",
                   registry |-> from_domains(ConfigDomains(raw_domains, 1)[1])]
        ELSE [kind |-> "Ok", registry |-> <<>>]

\* the entries of the `domains` map
EntryX == ConfigEntry(<<"x">>, <<GlobO>>, {<< <<"v">>, <<"/", "o">> >>})
EntryY == ConfigEntry(<<"y">>, <<GlobM, <<"~", "/", "*">> >>, {})
EntryBadName == ConfigEntry(<<"x", "/", "y">>, <<GlobO>>, {})
EntryBadGlob == ConfigEntry(<<"z">>, <<GlobO, GlobBad>>, {})
ConfigEntries == {EntryX, EntryY, EntryBadName, EntryBadGlob}

\* the `domains` maps, in the orders the HashMap can yield them
RawDomainMaps ==
    {<<>>} \cup {<<e>> : e \in ConfigEntries}
    \cup {<<d, e>> : <<d, e>> \in {x \in ConfigEntries \X ConfigEntries : x[1] # x[2]}}

LoadContents ==
    {NoFile, ConfirmedW, ConfirmedStem, ConfirmedNoPaths, ConfirmedMixedPaths,
     Proposed, NoFrontmatter, BadName}

LoadInputs ==
    UNION {{[vault |-> v, entries |-> l, domains |-> m] : l \in read_dir(v)} :
            <<v, m>> \in ({VaultNoDomains}
                          \cup {VaultOf(a, b, NoFile) : a, b \in LoadContents})
                         \X RawDomainMaps}

InitLoad ==
    /\ InitIdle
    /\ inp \in LoadInputs

\* the configuration is loaded
LoadCall ==
    /\ out = None
    /\ out' = load(inp.vault, inp.entries, inp.domains)
    /\ UNCHANGED <<fs, op, pc, path, domain, bdirs, file, canonical, result,
                   fsops, changed, totalMuts, inp, regVars>>

NextLoad == LoadCall

SpecLoad == InitLoad /\ [][NextLoad]_vars

\* the vault of the input holds a confirmed domain file
HasConfirmedVaultDomain ==
    EntriesHolding(WellFormedConfirmed \cup InvalidPathConfirmed) # <<>>

\* the configured domains, each with its name, globs, aliases and grants
ConfiguredDomains == {inp.domains[i] : i \in 1..Len(inp.domains)}

\* C16: the configured domain list is used only when the vault holds no
\* confirmed domain file: with at least one vault domain a successful load
\* gives exactly the vault registry and no configured domain; with none it
\* gives exactly the configured domains; with neither it gives the empty
\* registry.  A load fails only in the fallback, on a configured domain
\* whose name or glob is refused.
C16_ConfigOnlyAsFallback ==
    /\ (out # None /\ HasConfirmedVaultDomain) =>
          /\ out.kind = "Ok"
          /\ out.registry = from_vault(inp.vault, inp.entries)
          /\ Len(out.registry) = Len(EntriesHolding(WellFormedConfirmed
                                                    \cup InvalidPathConfirmed))
          /\ \A i \in 1..Len(out.registry) : out.registry[i] \notin ConfiguredDomains
    /\ (out # None /\ ~HasConfirmedVaultDomain /\ out.kind = "Ok") =>
          /\ {out.registry[i] : i \in 1..Len(out.registry)} = ConfiguredDomains
          /\ Len(out.registry) = Len(inp.domains)
    /\ (out # None /\ ~HasConfirmedVaultDomain /\ inp.domains = <<>>) =>
          /\ out.kind = "Ok"
          /\ out.registry = <<>>
    /\ (out # None /\ out.kind = "Err") =>
          \E i \in 1..Len(inp.domains) : inp.domains[i] \in {EntryBadName, EntryBadGlob}

\* the only domain file of the vault is a proposed one and the registry is
\* the two configured domains
C16_Witness ==
    /\ out # None
    /\ inp.vault.files[DomainsA] = Proposed
    /\ inp.vault.files[DomainsB] = NoFile
    /\ inp.domains = <<EntryY, EntryX>>
    /\ out.kind = "Ok"
    /\ names(out.registry) = << <<"y">>, <<"x">> >>

-----------------------------------------------------------------------------
(* AliasResolver: src/src/alias/resolver.rs                                *)
(*                                                                         *)
(* The openers `{alias:` and `{domain:` are one character each of the      *)
(* texts below, written "{alias:" and "{domain:".                          *)

\* expand_home, HOME being set
expand_home(p) ==
    IF StartsWith(p, <<"~", "/">>)
    THEN PathJoin(HOME, SubSeq(p, 3, Len(p)))
    ELSE p

\* glob_base
glob_base(glob) ==
    LET expanded == IF StartsWith(glob, <<"~", "/">>)
                    THEN HOME \o <<"/">> \o SubSeq(glob, 3, Len(glob))
                    ELSE glob
    IN  trim_end_matches(SplitAt(expanded, "*")[1], "/")

\* AliasResolver::new keeping the alias paths as they are written
AliasResolver_new_Raw(aliases, domain_name, domain_path_globs) ==
    [aliases      |-> aliases,
     domain_roots |-> IF domain_path_globs = <<>> THEN {}
                      ELSE {<<domain_name,
                              expand_home(glob_base(domain_path_globs[1]))>>},
     domain_paths |-> [i \in 1..Len(domain_path_globs) |->
                          expand_home(glob_base(domain_path_globs[i]))]]

\* AliasResolver::new; the maps are sets of <<key, value>> pairs
AliasResolver_new(aliases, domain_name, domain_path_globs) ==
    [aliases      |-> {<<kv[1], expand_home(kv[2])>> : kv \in aliases},
     domain_roots |-> IF domain_path_globs = <<>> THEN {}
                      ELSE {<<domain_name,
                              expand_home(glob_base(domain_path_globs[1]))>>},
     domain_paths |-> [i \in 1..Len(domain_path_globs) |->
                          expand_home(glob_base(domain_path_globs[i]))]]

\* str::find of a character from a position on: its index, or 0
FindFrom(str, c, from) ==
    IF \E i \in from..Len(str) : str[i] = c
    THEN CHOOSE i \in from..Len(str) :
            str[i] = c /\ \A j \in from..(i - 1) : str[j] # c
    ELSE 0

\* HashMap::get: <<value>> or <<>>
MapGet(m, key) ==
    IF \E kv \in m : kv[1] = key
    THEN <<(CHOOSE kv \in m : kv[1] = key)[2]>>
    ELSE <<>>

\* one test and one pass of the loop replacing the {alias:name} references
\* (resolver.rs:59-69): the loop has ended (Ok), goes on with a new text
\* (Continue) or returns an error
AliasIteration(r, resolved, path_str) ==
    LET start == FindFrom(resolved, "{alias:", 1)
        end   == FindFrom(resolved, "}", start)
        name  == SubSeq(resolved, start + 1, end - 1)
    IN  IF start = 0 THEN [kind |-> "Ok", text |-> resolved]
        ELSE IF end = 0
        THEN [kind |-> "ExpansionFailed", path |-> path_str,
              reason |-> "unclosed {alias:...} reference"]
        ELSE IF MapGet(r.aliases, name) = <<>>
        THEN [kind |-> "UnknownAlias", name |-> name]
        ELSE [kind |-> "Continue",
              text |-> SubSeq(resolved, 1, start - 1) \o MapGet(r.aliases, name)[1]
                          \o SubSeq(resolved, end + 1, Len(resolved))]

\* one test and one pass of the loop replacing the {domain:name} references
\* (resolver.rs:72-82)
DomainIteration(r, resolved, path_str) ==
    LET start == FindFrom(resolved, "{domain:", 1)
        end   == FindFrom(resolved, "}", start)
        name  == SubSeq(resolved, start + 1, end - 1)
    IN  IF start = 0 THEN [kind |-> "Ok", text |-> resolved]
        ELSE IF end = 0
        THEN [kind |-> "ExpansionFailed", path |-> path_str,
              reason |-> "unclosed {domain:...} reference"]
        ELSE IF MapGet(r.domain_roots, name) = <<>>
        THEN [kind |-> "UnknownDomain", name |-> name]
        ELSE [kind |-> "Continue",
              text |-> SubSeq(resolved, 1, start - 1) \o MapGet(r.domain_roots, name)[1]
                          \o SubSeq(resolved, end + 1, Len(resolved))]

RECURSIVE ExpandAliasRefs(_, _, _)
\* the loop replacing the {alias:name} references, for the configurations
\* on which it ends
ExpandAliasRefs(r, resolved, path_str) ==
    LET it == AliasIteration(r, resolved, path_str)
    IN  IF it.kind = "Continue" THEN ExpandAliasRefs(r, it.text, path_str) ELSE it

RECURSIVE ExpandDomainRefs(_, _, _)
\* the loop replacing the {domain:name} references, for the configurations
\* on which it ends
ExpandDomainRefs(r, resolved, path_str) ==
    LET it == DomainIteration(r, resolved, path_str)
    IN  IF it.kind = "Continue" THEN ExpandDomainRefs(r, it.text, path_str) ELSE it

\* check_boundary without the early return for an empty domain_paths
check_boundary_NoEarlyReturn(fsx, r, p) ==
    IF \E i \in 1..Len(r.domain_paths) :
           \/ PathStartsWith(p, r.domain_paths[i])
           \/ /\ fs_canonicalize(fsx, r.domain_paths[i]).kind = "Ok"
              /\ fs_canonicalize(fsx, p).kind = "Ok"
              /\ PathStartsWith(fs_canonicalize(fsx, p).path,
                                fs_canonicalize(fsx, r.domain_paths[i]).path)
    THEN [kind |-> "Ok"]
    ELSE [kind |-> "OutsideBoundary", path |-> p]

\* AliasResolver::check_boundary
check_boundary(fsx, r, p) ==
    IF r.domain_paths = <<>> THEN [kind |-> "Ok"]
    ELSE IF \E i \in 1..Len(r.domain_paths) :
               \/ PathStartsWith(p, r.domain_paths[i])
               \/ /\ fs_canonicalize(fsx, r.domain_paths[i]).kind = "Ok"
                  /\ fs_canonicalize(fsx, p).kind = "Ok"
                  /\ PathStartsWith(fs_canonicalize(fsx, p).path,
                                    fs_canonicalize(fsx, r.domain_paths[i]).path)
         THEN [kind |-> "Ok"]
         ELSE [kind |-> "OutsideBoundary", path |-> p]

\* resolve_unchecked leaving a leading ~/ as it is
resolve_unchecked_NoHome(r, path_str) ==
    LET a == ExpandAliasRefs(r, path_str, path_str)
        d == ExpandDomainRefs(r, a.text, path_str)
    IN  IF a.kind # "Ok" THEN a
        ELSE IF d.kind # "Ok" THEN d
        ELSE [kind |-> "Ok", path |-> d.text]

\* resolve_unchecked naming the partially expanded text in ExpansionFailed
resolve_unchecked_PartialText(r, path_str) ==
    LET a == ExpandAliasRefs(r, path_str, path_str)
        d == ExpandDomainRefs(r, a.text, a.text)
    IN  IF a.kind # "Ok" THEN a
        ELSE IF d.kind # "Ok" THEN d
        ELSE [kind |-> "Ok", path |-> expand_home(d.text)]

\* AliasResolver::resolve_unchecked
resolve_unchecked(r, path_str) ==
    LET a == ExpandAliasRefs(r, path_str, path_str)
        d == ExpandDomainRefs(r, a.text, path_str)
    IN  IF a.kind # "Ok" THEN a
        ELSE IF d.kind # "Ok" THEN d
        ELSE [kind |-> "Ok", path |-> expand_home(d.text)]

\* resolve replacing the {domain:name} references before the {alias:name}
\* references
alias_resolve_DomainFirst(fsx, r, path_str) ==
    LET d == ExpandDomainRefs(r, path_str, path_str)
        a == ExpandAliasRefs(r, d.text, path_str)
    IN  IF d.kind # "Ok" THEN d
        ELSE IF a.kind # "Ok" THEN a
        ELSE IF check_boundary(fsx, r, expand_home(a.text)).kind # "Ok"
        THEN check_boundary(fsx, r, expand_home(a.text))
        ELSE [kind |-> "Ok", path |-> expand_home(a.text)]

\* AliasResolver::resolve
alias_resolve(fsx, r, path_str) ==
    LET a == ExpandAliasRefs(r, path_str, path_str)
        d == ExpandDomainRefs(r, a.text, path_str)
    IN  IF a.kind # "Ok" THEN a
        ELSE IF d.kind # "Ok" THEN d
        ELSE IF check_boundary(fsx, r, expand_home(d.text)).kind # "Ok"
        THEN check_boundary(fsx, r, expand_home(d.text))
        ELSE [kind |-> "Ok", path |-> expand_home(d.text)]

-----------------------------------------------------------------------------
(* The resolver of one domain applied to one text, on the filesystem of    *)
(* the start.  A text is written as the sequence of its pieces.            *)

MaxPieces == 3        \* every text of up to this many pieces is an input

Lit(text)        == [k |-> "lit", text |-> text]
AliasRef(name)   == [k |-> "alias", name |-> name]
DomainRef(name)  == [k |-> "domain", name |-> name]
OpenAlias(name)  == [k |-> "open_alias", name |-> name]
OpenDomain(name) == [k |-> "open_domain", name |-> name]

\* the text of a piece
PieceText(piece) ==
    CASE piece.k = "lit" -> piece.text
      [] piece.k = "alias" -> <<"{alias:">> \o piece.name \o <<"}">>
      [] piece.k = "domain" -> <<"{domain:">> \o piece.name \o <<"}">>
      [] piece.k = "open_alias" -> <<"{alias:">> \o piece.name
      [] piece.k = "open_domain" -> <<"{domain:">> \o piece.name

RECURSIVE Flatten(_)
\* the texts of a sequence, one after the other
Flatten(texts) == IF texts = <<>> THEN <<>> ELSE Head(texts) \o Flatten(Tail(texts))

\* the text the pieces make
TextOf(pieces) == Flatten([i \in 1..Len(pieces) |-> PieceText(pieces[i])])

Pieces ==
    { Lit(<<"/", "f">>), Lit(<<"/", "o", "/", "s">>),
      Lit(<<"/", ".", ".">>), Lit(<<"~", "/">>),
      AliasRef(<<"v">>), AliasRef(<<"w">>), AliasRef(<<"z">>),
      DomainRef(<<"p">>), DomainRef(<<"q">>),
      OpenAlias(<<"v">>), OpenDomain(<<"p">>) }

\* the aliases of the domain: v is inside /b, w under the home directory
DomainAliases ==
    { << <<"v">>, <<"/", "b">> >>,
      << <<"w">>, <<"~", "/", "n">> >> }

\* the path globs of the domain p, with the root they give the domain
DomainGlobChoices ==
    { [globs |-> <<GlobB>>, root |-> << <<"/", "b">> >>],
      [globs |-> << <<"/", "t", "/", "*">> >>, root |-> << <<"/", "t">> >>],
      [globs |-> << <<"~", "/", "*">>, GlobB >>, root |-> << <<"/", "h">> >>],
      [globs |-> << <<"{alias:", "v", "}", "/", "*">> >>,
       root  |-> << <<"{alias:", "v", "}">> >>],
      [globs |-> <<>>, root |-> <<>>] }

InitAlias ==
    /\ InitIdle
    /\ \E c \in DomainGlobChoices, n \in 1..MaxPieces :
          \E q \in [1..n -> Pieces] :
             inp = [globs |-> c.globs, root |-> c.root, pieces |-> q]

\* the text is resolved, with and without the boundary check
AliasCall ==
    /\ out = None
    /\ LET r == AliasResolver_new(DomainAliases, <<"p">>, inp.globs)
       IN  out' = [raw       |-> TextOf(inp.pieces),
                   checked   |-> alias_resolve(fs, r, TextOf(inp.pieces)),
                   unchecked |-> resolve_unchecked(r, TextOf(inp.pieces))]
    /\ UNCHANGED <<fs, op, pc, path, domain, bdirs, file, canonical, result,
                   fsops, changed, totalMuts, inp, regVars>>

NextAlias == AliasCall

SpecAlias == InitAlias /\ [][NextAlias]_vars

-----------------------------------------------------------------------------
(* What the expansion of a text of complete references is expected to be   *)

\* no piece of the text is an unclosed reference
CompleteRefs == \A i \in 1..Len(inp.pieces) : inp.pieces[i].k \in {"lit", "alias", "domain"}

\* the alias paths as configured, ~/ standing for the home directory /h
ExpectedAliasPaths ==
    { << <<"v">>, <<"/", "b">> >>,
      << <<"w">>, <<"/", "h", "/", "n">> >> }

UnknownAliasAt ==
    {i \in 1..Len(inp.pieces) :
        /\ inp.pieces[i].k = "alias"
        /\ \A kv \in ExpectedAliasPaths : kv[1] # inp.pieces[i].name}

UnknownDomainAt ==
    {i \in 1..Len(inp.pieces) :
        /\ inp.pieces[i].k = "domain"
        /\ (inp.pieces[i].name # <<"p">> \/ inp.root = <<>>)}

FirstIn(S) == CHOOSE i \in S : \A j \in S : i <= j

\* a complete piece with its reference replaced
PieceValue(piece) ==
    CASE piece.k = "lit" -> piece.text
      [] piece.k = "alias" ->
           (CHOOSE kv \in ExpectedAliasPaths : kv[1] = piece.name)[2]
      [] piece.k = "domain" -> inp.root[1]

\* the pieces one after the other, every reference replaced
ReplacedText == Flatten([i \in 1..Len(inp.pieces) |-> PieceValue(inp.pieces[i])])

\* a leading ~/ replaced by the home directory, which an absolute rest replaces
HomeInserted(text) ==
    IF Len(text) >= 2 /\ text[1] = "~" /\ text[2] = "/"
    THEN IF Len(text) >= 3 /\ text[3] = "/"
         THEN SubSeq(text, 3, Len(text))
         ELSE <<"/", "h", "/">> \o SubSeq(text, 3, Len(text))
    ELSE text

\* the outcome expected of both functions, the boundary check aside
ExpectedExpansion(final) ==
    IF UnknownAliasAt # {}
    THEN [kind |-> "UnknownAlias", name |-> inp.pieces[FirstIn(UnknownAliasAt)].name]
    ELSE IF UnknownDomainAt # {}
    THEN [kind |-> "UnknownDomain", name |-> inp.pieces[FirstIn(UnknownDomainAt)].name]
    ELSE [kind |-> "Ok", path |-> final]

\* both functions give the expected outcome, resolve possibly refusing the path
BothGive(expected) ==
    /\ out.unchecked = expected
    /\ expected.kind # "Ok" => out.checked = expected
    /\ expected.kind = "Ok" =>
          out.checked \in {expected, [kind |-> "OutsideBoundary", path |-> expected.path]}

\* C17 as stated: every {alias:NAME} is replaced by the configured alias path
\* and every {domain:NAME} by the root of the constructing domain, the rest
\* of the text staying as it is; a NAME that is not configured gives
\* UnknownAlias, respectively UnknownDomain, with that NAME
C17_TokensReplacedRestUnchanged ==
    (out # None /\ "raw" \in DOMAIN out /\ CompleteRefs) =>
        BothGive(ExpectedExpansion(ReplacedText))

\* C17 amended: the references are replaced as stated and the rest stays as
\* it is, except that a leading ~/ of the text so obtained is then replaced
\* by the home directory; the domain of a resolver without path globs has no
\* root and its NAME gives UnknownDomain
C17_TokensReplacedThenHome ==
    (out # None /\ "raw" \in DOMAIN out /\ CompleteRefs) =>
        BothGive(ExpectedExpansion(HomeInserted(ReplacedText)))

\* {alias:v}/f with v -> /b and the boundary /b/* resolves to exactly /b/f
C17_Witness ==
    /\ out # None /\ "raw" \in DOMAIN out
    /\ inp.globs = <<GlobB>>
    /\ inp.pieces = <<AliasRef(<<"v">>), Lit(<<"/", "f">>)>>
    /\ out.checked = [kind |-> "Ok", path |-> <<"/", "b", "/", "f">>]

-----------------------------------------------------------------------------
(* The boundary of the resolver                                            *)

RECURSIVE LexicalWalk(_, _)
\* the location a sequence of names designates, `..` leading to the parent
LexicalWalk(cur, rest) ==
    IF rest = <<>> THEN cur
    ELSE IF Head(rest) = CurDir THEN LexicalWalk(cur, Tail(rest))
    ELSE IF Head(rest) = ParentDir THEN LexicalWalk(Parent(cur), Tail(rest))
    ELSE LexicalWalk(Append(cur, Head(rest)), Tail(rest))

\* the location a path text designates, its `..` components interpreted
DesignatedLoc(p) ==
    LexicalWalk(IF p # <<>> /\ p[1] = "/" THEN LocRoot ELSE Cwd, WalkNames(p))

\* the glob prefixes of the resolver's domain
BoundaryPrefixes == AliasResolver_new(DomainAliases, <<"p">>, inp.globs).domain_paths

\* the location of p lies under the prefix or under its canonical form
LiesUnder(p, prefix) ==
    \/ IsPrefixSeq(DesignatedLoc(prefix), DesignatedLoc(p))
    \/ /\ ResolveLoc(fs, prefix).kind = "Ok"
       /\ \/ IsPrefixSeq(ResolveLoc(fs, prefix).loc, DesignatedLoc(p))
          \/ /\ ResolveLoc(fs, p).kind = "Ok"
             /\ IsPrefixSeq(ResolveLoc(fs, prefix).loc, ResolveLoc(fs, p).loc)

\* C18: when resolve returns Ok(p), the location p designates, its `..`
\* components interpreted, lies under one of the domain's glob prefixes or
\* under the canonical form of one
C18_OkLiesInsideBoundary ==
    (out # None /\ "raw" \in DOMAIN out /\ out.checked.kind = "Ok") =>
        \E i \in 1..Len(BoundaryPrefixes) :
            LiesUnder(out.checked.path, BoundaryPrefixes[i])

\* the same for the resolvers that have a path glob
OkLiesInsideNonemptyBoundary ==
    (out # None /\ "raw" \in DOMAIN out /\ out.checked.kind = "Ok"
        /\ inp.globs # <<>>) =>
        \E i \in 1..Len(BoundaryPrefixes) :
            LiesUnder(out.checked.path, BoundaryPrefixes[i])

-----------------------------------------------------------------------------
(* resolve against resolve_unchecked                                       *)

\* C19: an error of resolve_unchecked is the error of resolve; when
\* resolve_unchecked returns Ok(p), resolve returns Ok(p) or OutsideBoundary;
\* /o/s with the only boundary /b/* fails via resolve with OutsideBoundary
\* and succeeds via resolve_unchecked
C19_DifferOnlyByBoundaryCheck ==
    (out # None /\ "raw" \in DOMAIN out) =>
        /\ out.unchecked.kind # "Ok" => out.checked = out.unchecked
        /\ out.unchecked.kind = "Ok" =>
              \/ out.checked = out.unchecked
              \/ out.checked.kind = "OutsideBoundary"
        /\ (inp.globs = <<GlobB>> /\ inp.pieces = <<Lit(<<"/", "o", "/", "s">>)>>) =>
              /\ out.checked.kind = "OutsideBoundary"
              /\ out.unchecked = [kind |-> "Ok", path |-> <<"/", "o", "/", "s">>]

\* /o/s with the only boundary /b/*: refused by resolve, returned by
\* resolve_unchecked
C19_Witness ==
    /\ out # None /\ "raw" \in DOMAIN out
    /\ inp.globs = <<GlobB>>
    /\ inp.pieces = <<Lit(<<"/", "o", "/", "s">>)>>
    /\ out.checked.kind = "OutsideBoundary"
    /\ out.unchecked.kind = "Ok"

-----------------------------------------------------------------------------
(* Unclosed references                                                     *)

\* the text holds {alias: or {domain: with no } after it
HasUnclosed(text) ==
    \E i \in 1..Len(text) :
        /\ text[i] \in {"{alias:", "{domain:"}
        /\ \A j \in (i + 1)..Len(text) : text[j] # "}"

\* every complete reference names a configured alias or the domain, and no
\* unclosed reference is closed by the brace of a later one
RefsConfigured ==
    /\ UnknownAliasAt = {}
    /\ UnknownDomainAt = {}
    /\ \A i \in 1..Len(inp.pieces) :
          inp.pieces[i].k \in {"open_alias", "open_domain"} =>
             \A j \in (i + 1)..Len(inp.pieces) :
                inp.pieces[j].k \in {"lit", "open_alias", "open_domain"}

\* the failure names the original input
FailsNamingInput(res) == res.kind = "ExpansionFailed" /\ res.path = out.raw

\* C20 as stated: an input holding {alias: or {domain: with no } after it
\* fails, in both functions, with ExpansionFailed naming the original input
C20_UnclosedFailsNamingInput ==
    (out # None /\ "raw" \in DOMAIN out /\ HasUnclosed(out.raw)) =>
        /\ FailsNamingInput(out.checked)
        /\ FailsNamingInput(out.unchecked)

\* C20 amended: such an input fails in both functions; the failure is
\* ExpansionFailed naming the original input, also after earlier references
\* were replaced, when every complete reference of the input names a
\* configured alias or the domain; otherwise it is that or the UnknownAlias
\* or UnknownDomain of a reference met before the unclosed one
C20_UnclosedFailsAfterKnownRefs ==
    (out # None /\ "raw" \in DOMAIN out /\ HasUnclosed(out.raw)) =>
        /\ out.checked = out.unchecked
        /\ out.unchecked.kind \in {"ExpansionFailed", "UnknownAlias", "UnknownDomain"}
        /\ out.unchecked.kind = "ExpansionFailed" => out.unchecked.path = out.raw
        /\ RefsConfigured => FailsNamingInput(out.unchecked)

\* {alias:v}{domain:p fails naming the whole input, v being replaced before
C20_Witness ==
    /\ out # None /\ "raw" \in DOMAIN out
    /\ inp.globs = <<GlobB>>
    /\ inp.pieces = <<AliasRef(<<"v">>), OpenDomain(<<"p">>)>>
    /\ out.checked = [kind |-> "ExpansionFailed",
                      path |-> <<"{alias:", "v", "}", "{domain:", "p">>,
                      reason |-> "unclosed {domain:...} reference"]
    /\ out.unchecked = out.checked

-----------------------------------------------------------------------------
(* The shared registry of the server, the watcher task that rebuilds it    *)
(* and the tasks that read it.                                             *)
(*                                                                         *)
(*   vault     the files of the vault                                      *)
(*   registry  the RwLock<DomainRegistry>: its value, whether the write    *)
(*             guard is held, the number of rebuilds so far and whether    *)
(*             the startup took the configured domains                     *)
(*   events    the events notify has signalled and the callback has not    *)
(*             handled yet, how many were signalled, and the path of the   *)
(*             last change of the vault                                    *)
(*   channel   the paths sent to the watcher task and not yet received     *)
(*   watcher   the watcher task: its position, the path it handles and     *)
(*             the registry it has built                                   *)
(*   readers   the reading tasks: position and the domains read so far     *)

MaxChanges == 2       \* events signalled in a run
MaxReaders == 2       \* tasks reading the registry

Readers == 1..MaxReaders

\* what the files of the vault are changed to
ChangeContents == {NoFile, ConfirmedStem, Proposed}

StartVaults ==
    { VaultNoDomains,
      VaultOf(ConfirmedW, NoFile, NoFile),
      VaultOf(ConfirmedW, ConfirmedStem, NoFile) }

\* the `domains` map of the configuration file
StartConfigs == {<<>>, <<EntryX>>}

NoVaultPath == VaultPath("", <<>>, "")

\* vault_root/domains itself
DomainsDir == VaultPath("domains", <<>>, "")

WatcherAt(pos, vpath, new_registry) ==
    [pc |-> pos, path |-> vpath, new_registry |-> new_registry]

\* WardwellServer::new on the loaded configuration, the watcher waiting for
\* its first path
InitRegistry ==
    /\ InitNoCall
    /\ inp = None
    /\ vault \in StartVaults
    /\ \E l \in read_dir(vault), cfg \in StartConfigs :
          registry = [value    |-> from_domains(all(load(vault, l, cfg).registry)),
                      writer   |-> FALSE,
                      rebuilds |-> 0,
                      fallback |-> from_vault(vault, l) = <<>> /\ cfg # <<>>]
    /\ events = [queue |-> <<>>, signalled |-> 0, last |-> NoVaultPath]
    /\ channel = <<>>
    /\ watcher = WatcherAt("recv", NoVaultPath, <<>>)
    /\ readers = [r \in Readers |-> [pc |-> "idle", seen |-> <<>>]]

pathVars == <<fs, op, pc, path, domain, bdirs, file, canonical, result, fsops,
              changed, totalMuts, inp, out>>

\* the kind of the event a change of a file is signalled with
EventKind(before, after) ==
    IF before.kind = "absent" THEN "Create"
    ELSE IF after.kind = "absent" THEN "Remove"
    ELSE "Modify"

\* a file of the vault is created, modified or removed, and notify signals it
VaultChange ==
    /\ events.signalled < MaxChanges
    /\ \E f \in VaultPaths, c \in ChangeContents :
          /\ vault.files[f] # c
          /\ vault' = [has_domains |-> vault.has_domains
                                        \/ (UnderDomains(f) /\ c.kind # "absent"),
                       files |-> [vault.files EXCEPT ![f] = c]]
          /\ events' = [queue |-> Append(events.queue,
                                           [kind  |-> EventKind(vault.files[f], c),
                                            paths |-> <<f>>]),
                        signalled |-> events.signalled + 1,
                        last |-> f]
    /\ UNCHANGED <<registry, channel, watcher, readers, pathVars>>

\* the directory domains/ is moved out of the vault, and notify signals the
\* change of its name
VaultDirMoved ==
    /\ events.signalled < MaxChanges
    /\ vault.has_domains
    /\ vault' = [has_domains |-> FALSE,
                 files |-> [f \in VaultPaths |->
                              IF UnderDomains(f) THEN NoFile ELSE vault.files[f]]]
    /\ events' = [queue |-> Append(events.queue,
                                     [kind |-> "Modify", paths |-> <<DomainsDir>>]),
                  signalled |-> events.signalled + 1,
                  last |-> DomainsDir]
    /\ UNCHANGED <<registry, channel, watcher, readers, pathVars>>

\* a file of the vault is opened, and notify signals it
VaultAccess ==
    /\ events.signalled < MaxChanges
    /\ \E f \in VaultPaths :
          /\ vault.files[f].kind # "absent"
          /\ events' = [events EXCEPT
                           !.queue = Append(@, [kind |-> "Access", paths |-> <<f>>]),
                           !.signalled = @ + 1]
    /\ UNCHANGED <<vault, registry, channel, watcher, readers, pathVars>>

\* the paths of an event the callback sends: watcher.rs:22-31
SentPaths(event) ==
    IF event.kind \in {"Create", "Modify", "Remove"}
    THEN SelectSeq(event.paths, LAMBDA f : extension(f) = "md")
    ELSE <<>>

\* the callback of the notify watcher on the next event
Callback ==
    /\ events.queue # <<>>
    /\ channel' = channel \o SentPaths(Head(events.queue))
    /\ events' = [events EXCEPT !.queue = Tail(@)]
    /\ UNCHANGED <<vault, registry, watcher, readers, pathVars>>

\* the condition of the rebuild, the watcher being the one of the vault root
RebuildsRegistry(vpath) == UnderDomains(vpath)

\* rx.recv().await
W_Recv ==
    /\ watcher.pc = "recv"
    /\ channel # <<>>
    /\ channel' = Tail(channel)
    /\ watcher' = WatcherAt(IF RebuildsRegistry(Head(channel)) THEN "scan" ELSE "index",
                            Head(channel), <<>>)
    /\ UNCHANGED <<vault, registry, events, readers, pathVars>>

\* a rebuild that loads the registry as the startup does, with the
\* configured domains as a fallback
W_FromVault_Load ==
    /\ watcher.pc = "scan"
    /\ \E l \in read_dir(vault) :
          watcher' = WatcherAt("write", watcher.path, load(vault, l, <<EntryX>>).registry)
    /\ UNCHANGED <<vault, registry, events, channel, readers, pathVars>>

\* DomainRegistry::from_vault(&vault_root)
W_FromVault ==
    /\ watcher.pc = "scan"
    /\ \E l \in read_dir(vault) :
          watcher' = WatcherAt("write", watcher.path, from_vault(vault, l))
    /\ UNCHANGED <<vault, registry, events, channel, readers, pathVars>>

\* RwLock::write is granted whatever the readers hold
WriteGranted_Always(reg, rs) == ~reg.writer

\* RwLock::write is granted when no guard is held
WriteGranted(reg, rs) ==
    /\ ~reg.writer
    /\ \A r \in DOMAIN rs : rs[r].pc = "idle"

\* RwLock::read is granted when no write guard is held
ReadGranted(reg) == ~reg.writer

\* reg.write().await
W_Write ==
    /\ watcher.pc = "write"
    /\ WriteGranted(registry, readers)
    /\ registry' = [registry EXCEPT !.writer = TRUE]
    /\ watcher' = [watcher EXCEPT !.pc = "store"]
    /\ UNCHANGED <<vault, events, channel, readers, pathVars>>

\* *write_guard = new_registry
W_Store ==
    /\ watcher.pc = "store"
    /\ registry' = [registry EXCEPT !.value = watcher.new_registry,
                                    !.rebuilds = @ + 1]
    /\ watcher' = WatcherAt("unlock", watcher.path, <<>>)
    /\ UNCHANGED <<vault, events, channel, readers, pathVars>>

\* the write guard is dropped at the end of the block
W_Unlock ==
    /\ watcher.pc = "unlock"
    /\ registry' = [registry EXCEPT !.writer = FALSE]
    /\ watcher' = [watcher EXCEPT !.pc = "index"]
    /\ UNCHANGED <<vault, events, channel, readers, pathVars>>

\* the index is brought up to date for the path; the index is no part of the
\* registry
W_Index ==
    /\ watcher.pc = "index"
    /\ watcher' = WatcherAt("recv", NoVaultPath, <<>>)
    /\ UNCHANGED <<vault, registry, events, channel, readers, pathVars>>

\* registry.read().await
R_Acquire(r) ==
    /\ readers[r].pc = "idle"
    /\ ReadGranted(registry)
    /\ readers' = [readers EXCEPT ![r] = [pc |-> "reading", seen |-> <<>>]]
    /\ UNCHANGED <<vault, registry, events, channel, watcher, pathVars>>

\* the next domain of all() is read through the guard, or the list has ended
R_Read(r) ==
    /\ readers[r].pc = "reading"
    /\ readers' = [readers EXCEPT ![r] =
          IF Len(@.seen) < Len(all(registry.value))
          THEN [pc |-> "reading",
                seen |-> Append(@.seen, all(registry.value)[Len(@.seen) + 1])]
          ELSE [pc |-> "done", seen |-> @.seen]]
    /\ UNCHANGED <<vault, registry, events, channel, watcher, pathVars>>

\* the read guard is dropped
R_Release(r) ==
    /\ readers[r].pc = "done"
    /\ readers' = [readers EXCEPT ![r] = [pc |-> "idle", seen |-> <<>>]]
    /\ UNCHANGED <<vault, registry, events, channel, watcher, pathVars>>

NextRegistry ==
    \/ VaultChange
    \/ VaultDirMoved
    \/ VaultAccess
    \/ Callback
    \/ W_Recv
    \/ W_FromVault
    \/ W_Write
    \/ W_Store
    \/ W_Unlock
    \/ W_Index
    \/ \E r \in Readers : R_Acquire(r)
    \/ \E r \in Readers : R_Read(r)
    \/ \E r \in Readers : R_Release(r)

SpecRegistry == InitRegistry /\ [][NextRegistry]_vars

-----------------------------------------------------------------------------
(* What the readers of the registry see                                    *)

\* a reader holds a read guard
HoldsGuard(r) == readers[r].pc \in {"reading", "done"}

\* what a reader has read is the beginning of the list the registry holds,
\* and the whole of it when the read has ended
ReadersSeeCompleteLists ==
    \A r \in Readers :
        HoldsGuard(r) =>
            /\ IsPrefixSeq(readers[r].seen, all(registry.value))
            /\ readers[r].pc = "done" => readers[r].seen = all(registry.value)

\* the list changes only by the watcher's assignment of a whole registry
\* under the write guard, no read guard being held
ReplacedWholesale ==
    all(registry'.value) # all(registry.value) =>
        /\ registry.writer
        /\ watcher.pc = "store"
        /\ registry'.value = watcher.new_registry
        /\ \A r \in Readers : ~HoldsGuard(r)

\* C14: every read of the registry sees one complete domain list, the one
\* before or the one after a rebuild and never a mixture or a part of one,
\* and the list changes only by being replaced as a whole under the write
\* lock
C14_ReadersSeeOldOrNewRegistry ==
    []ReadersSeeCompleteLists /\ [][ReplacedWholesale]_vars

\* a reader is in the middle of a list of two domains while the watcher
\* waits for the write lock with a different registry
C14_Witness ==
    /\ watcher.pc = "write"
    /\ watcher.new_registry # registry.value
    /\ \E r \in Readers :
          /\ readers[r].pc = "reading"
          /\ Len(readers[r].seen) = 1
          /\ Len(all(registry.value)) = 2

-----------------------------------------------------------------------------
(* The registry after the events                                           *)

\* every signalled event has been handled and the watcher waits for a path
Quiescent ==
    /\ events.queue = <<>>
    /\ channel = <<>>
    /\ watcher.pc = "recv"

\* a create, modify or remove event has been signalled
VaultChanged == events.last # NoVaultPath

\* the path of the last create, modify or remove event
LastChanged == events.last

\* the registries from_vault can build from the vault as it is
FromVaultNow == {from_vault(vault, l) : l \in read_dir(vault)}

\* C15: after a create, modify or remove event for a path under domains/
\* has been processed, the registry is from_vault of the vault as that event
\* left it
C15_RebuiltOnDomainsEvent ==
    (registry # <<>> /\ Quiescent /\ VaultChanged /\ UnderDomains(LastChanged)) =>
        registry.value \in FromVaultNow

\* after a create, modify or remove event for a path with the extension md
\* under domains/ has been processed, the registry is from_vault of the
\* vault as that event left it
RebuiltOnDomainFileEvent ==
    (registry # <<>> /\ Quiescent /\ VaultChanged /\ UnderDomains(LastChanged)
        /\ extension(LastChanged) = "md") =>
        /\ registry.rebuilds >= 1
        /\ registry.value \in FromVaultNow

\* the registry has been replaced by the one built from a domain file
\* written to the vault
RebuiltFromNewDomainFile ==
    /\ registry # <<>> /\ Quiescent /\ VaultChanged
    /\ LastChanged = DomainsB
    /\ registry.rebuilds >= 1
    /\ names(registry.value) = << <<"w">>, <<"b">> >>
    /\ registry.value \in FromVaultNow

-----------------------------------------------------------------------------
(* The two ways a DomainName comes to be: DomainName::new and the          *)
(* deserialization of a string.                                            *)

MaxNameLen == 4       \* every text of up to this many characters is an input

NameAlphabet == {"a", " ", "\t", "/", "\\"}

InitName ==
    /\ InitIdle
    /\ \E n \in 0..MaxNameLen : inp \in [1..n -> NameAlphabet]

\* DomainName::new(inp)
NameNewCall ==
    /\ out = None
    /\ out' = [via |-> "new", name |-> DomainName_new(inp)]
    /\ UNCHANGED <<fs, op, pc, path, domain, bdirs, file, canonical, result,
                   fsops, changed, totalMuts, inp, regVars>>

\* a DomainName is deserialized from the string inp
NameDeserializeCall ==
    /\ out = None
    /\ out' = [via |-> "deserialize", name |-> DomainName_try_from(inp)]
    /\ UNCHANGED <<fs, op, pc, path, domain, bdirs, file, canonical, result,
                   fsops, changed, totalMuts, inp, regVars>>

NextName == NameNewCall \/ NameDeserializeCall

SpecName == InitName /\ [][NextName]_vars

\* t is s without its surrounding whitespace
IsTrimOf(t, s) ==
    \E i \in 1..(Len(s) + 1), j \in 0..Len(s) :
        /\ t = SubSeq(s, i, j)
        /\ \A h \in 1..(i - 1) : s[h] \in {" ", "\t", "\n"}
        /\ \A h \in (j + 1)..Len(s) : s[h] \in {" ", "\t", "\n"}
        /\ t # <<>> => (t[1] \notin {" ", "\t", "\n"} /\ t[Len(t)] \notin {" ", "\t", "\n"})

HasSeparator(t) == \E i \in 1..Len(t) : t[i] \in {"/", "\\"}

\* C21: DomainName::new and the deserialization of a DomainName succeed on
\* exactly the strings whose text without the surrounding whitespace is not
\* empty and holds neither `/` nor `\`, and the name kept is that text, so
\* that no DomainName is empty or holds a path separator
C21_DomainNameValidated ==
    (out # None /\ "via" \in DOMAIN out) =>
        /\ out.name.kind = "Ok" <=>
              \E t \in {SubSeq(inp, i, j) : i \in 1..(Len(inp) + 1), j \in 0..Len(inp)} :
                  IsTrimOf(t, inp) /\ t # <<>> /\ ~HasSeparator(t)
        /\ out.name.kind = "Ok" =>
              /\ IsTrimOf(out.name.name, inp)
              /\ out.name.name # <<>>
              /\ ~HasSeparator(out.name.name)
        /\ out.name.kind # "Ok" => out.name.kind = "InvalidDomainName"

\* a name between whitespace is deserialized to the name alone
C21_Witness ==
    /\ out # None /\ "via" \in DOMAIN out
    /\ out.via = "deserialize"
    /\ inp = <<" ", "a", "a", "\t">>
    /\ out.name = [kind |-> "Ok", name |-> <<"a", "a">>]

-----------------------------------------------------------------------------
(* The operations next to the shared registry: the path operations of Spec *)
(* and, between them, the queries of the registry and of the alias         *)
(* resolver, whose results the caller discards.                            *)

\* the working directories and names the registry is asked about
QueryDirs == {PathOf(LocBF), PathOf(LocOS)}
QueryNames == { <<"w">>, <<"q">> }

\* the texts the alias resolver is given
QueryTexts ==
    { <<"{alias:", "c", "}", "/", "f">>,
      <<"/", "o", "/", "s">>,
      <<"{alias:", "c">> }

InitFrame ==
    /\ fs = InitFs
    /\ op = "none"
    /\ pc = "idle"
    /\ path = <<>>
    /\ \E dirs \in BoundaryDirChoices :
          /\ bdirs = dirs
          /\ domain = DomainOfDirs(dirs)
    /\ file = None
    /\ canonical = NoPath
    /\ result = None
    /\ fsops = 0
    /\ changed = FALSE
    /\ totalMuts = 0
    /\ inp = None
    /\ out = None
    /\ vault = VaultOf(ConfirmedW, ConfirmedStem, NoFile)
    /\ registry = [value    |-> from_vault(vault, <<DomainsA, DomainsB>>),
                   writer   |-> FALSE,
                   rebuilds |-> 0,
                   fallback |-> FALSE]
    /\ events = [queue |-> <<>>, signalled |-> 0, last |-> NoVaultPath]
    /\ channel = <<>>
    /\ watcher = WatcherAt("recv", NoVaultPath, <<>>)
    /\ readers = [r \in Readers |-> [pc |-> "idle", seen |-> <<>>]]

\* a step of a path operation, or a change of the filesystem by another
\* process
PathStep == out = None /\ Next

\* DomainRegistry::resolve, find, all and names on the shared registry
RegistryQuery ==
    /\ pc = "idle"
    /\ out = None
    /\ \E cwd \in QueryDirs, name \in QueryNames :
          out' = [query   |-> "registry",
                  resolve |-> registry_resolve(registry.value, cwd),
                  find    |-> find(registry.value, name),
                  all     |-> all(registry.value),
                  names   |-> names(registry.value)]
    /\ UNCHANGED <<fs, op, pc, path, domain, bdirs, file, canonical, result,
                   fsops, changed, totalMuts, inp, regVars>>

\* AliasResolver::resolve and resolve_unchecked for the first domain of the
\* registry
AliasQuery ==
    /\ pc = "idle"
    /\ out = None
    /\ registry.value # <<>>
    /\ \E text \in QueryTexts :
          LET d == registry.value[1]
              r == AliasResolver_new(d.aliases, d.name, d.paths)
          IN  out' = [query     |-> "alias",
                      checked   |-> alias_resolve(fs, r, text),
                      unchecked |-> resolve_unchecked(r, text)]
    /\ UNCHANGED <<fs, op, pc, path, domain, bdirs, file, canonical, result,
                   fsops, changed, totalMuts, inp, regVars>>

\* the caller drops the result of a query
Discard ==
    /\ out # None
    /\ out' = None
    /\ UNCHANGED <<fs, op, pc, path, domain, bdirs, file, canonical, result,
                   fsops, changed, totalMuts, inp, regVars>>

NextFrame ==
    \/ PathStep
    \/ RegistryQuery
    \/ AliasQuery
    \/ Discard

SpecFrame == InitFrame /\ [][NextFrame]_vars

\* a step of one of the operations: not the change of a file by another
\* process
OperationStep == totalMuts' = totalMuts

\* C22: no step of check_dangerous_patterns, resolve_path, check_path,
\* safe_open, safe_open_read, of the registry's resolve, find, all and names
\* or of the alias resolver's resolve and resolve_unchecked changes the
\* filesystem, the vault or the shared registry, whether it ends in a
\* success or a failure, nor does discarding a result
C22_OperationsChangeNothing ==
    [][OperationStep => (fs' = fs /\ vault' = vault /\ registry' = registry)]_vars

\* a safe_open_read has returned the content of a file, and the filesystem
\* is the one of the start
C22_Witness ==
    /\ registry # <<>>
    /\ op = "safe_open_read"
    /\ pc = "done"
    /\ result.kind = "Ok"
    /\ totalMuts = 0
    /\ fs = InitFs

-----------------------------------------------------------------------------
(* The two loops of resolve_unchecked, one pass at a time.  resolve runs   *)
(* the same loops and then the boundary check.                             *)

MaxTextLen == 8       \* a text longer than this is not expanded further

\* alias maps: one that refers to nothing, one whose alias refers to itself,
\* two aliases referring to each other, one that grows, one that introduces
\* a domain reference
LoopAliasMaps ==
    { { << <<"v">>, <<"/", "b">> >> },
      { << <<"v">>, <<"{alias:", "v", "}">> >> },
      { << <<"v">>, <<"{alias:", "w", "}">> >>, << <<"w">>, <<"{alias:", "v", "}">> >> },
      { << <<"v">>, <<"x", "{alias:", "v", "}">> >> },
      { << <<"v">>, <<"{domain:", "p", "}">> >> } }

\* the path globs of the domain p: a directory, and a directory named by a
\* reference to the domain itself
LoopGlobs == { <<GlobB>>, << <<"{domain:", "p", "}", "/", "*">> >> }

InitExpand ==
    /\ InitIdle
    /\ \E m \in LoopAliasMaps, g \in LoopGlobs, n \in 1..2 :
          \E q \in [1..n -> Pieces] :
             inp = [aliases |-> m, globs |-> g, pieces |-> q]

\* the resolver of the input
LoopResolver == AliasResolver_new(inp.aliases, <<"p">>, inp.globs)

\* let mut resolved = path_str.to_string()
ExpandBegin ==
    /\ out = None
    /\ out' = [pc |-> "alias", resolved |-> TextOf(inp.pieces), result |-> None]
    /\ UNCHANGED <<fs, op, pc, path, domain, bdirs, file, canonical, result,
                   fsops, changed, totalMuts, inp, regVars>>

\* one test and pass of the first loop
AliasLoopStep ==
    /\ out # None /\ out.pc = "alias"
    /\ Len(out.resolved) <= MaxTextLen
    /\ LET it == AliasIteration(LoopResolver, out.resolved, TextOf(inp.pieces))
       IN  out' = CASE it.kind = "Continue" -> [out EXCEPT !.resolved = it.text]
                    [] it.kind = "Ok" -> [out EXCEPT !.pc = "domain"]
                    [] OTHER -> [out EXCEPT !.pc = "done", !.result = it]
    /\ UNCHANGED <<fs, op, pc, path, domain, bdirs, file, canonical, result,
                   fsops, changed, totalMuts, inp, regVars>>

\* one test and pass of the second loop; after it the leading ~/ is expanded
\* and the path returned
DomainLoopStep ==
    /\ out # None /\ out.pc = "domain"
    /\ Len(out.resolved) <= MaxTextLen
    /\ LET it == DomainIteration(LoopResolver, out.resolved, TextOf(inp.pieces))
       IN  out' = CASE it.kind = "Continue" -> [out EXCEPT !.resolved = it.text]
                    [] it.kind = "Ok" ->
                         [out EXCEPT !.pc = "done",
                                     !.result = [kind |-> "Ok",
                                                 path |-> expand_home(it.text)]]
                    [] OTHER -> [out EXCEPT !.pc = "done", !.result = it]
    /\ UNCHANGED <<fs, op, pc, path, domain, bdirs, file, canonical, result,
                   fsops, changed, totalMuts, inp, regVars>>

NextExpand == ExpandBegin \/ AliasLoopStep \/ DomainLoopStep

\* the call runs on as long as it has a step to take
SpecExpand == InitExpand /\ [][NextExpand]_vars /\ WF_vars(NextExpand)

\* C23: resolve and resolve_unchecked return on every input text, alias map
\* and domain root, also when an alias value or the domain root holds a
\* reference itself
C23_ExpansionTerminates == <>(out # None /\ out.pc = "done")

-----------------------------------------------------------------------------
(* The resolver of a domain without path globs                             *)

\* C24: a resolver constructed with no path glob checks no boundary: resolve
\* never returns OutsideBoundary and returns what resolve_unchecked returns,
\* while path_allowed of the domain, which has no path, refuses every path
\* that resolve returns
C24_NoGlobsNoBoundaryCheck ==
    (out # None /\ "raw" \in DOMAIN out /\ inp.globs = <<>>) =>
        /\ out.checked.kind # "OutsideBoundary"
        /\ out.checked = out.unchecked
        /\ out.checked.kind = "Ok" =>
              ~path_allowed(fs, [name |-> <<"p">>, paths |-> inp.globs],
                            out.checked.path)

\* /o/s is returned by the resolver of a domain without path globs
C24_Witness ==
    /\ out # None /\ "raw" \in DOMAIN out
    /\ inp.globs = <<>>
    /\ inp.pieces = <<Lit(<<"/", "o", "/", "s">>)>>
    /\ out.checked = [kind |-> "Ok", path |-> <<"/", "o", "/", "s">>]
    /\ ~path_allowed(fs, [name |-> <<"p">>, paths |-> inp.globs], out.checked.path)

-----------------------------------------------------------------------------
(* The rebuild and the configured fallback                                 *)

\* the domains the configuration would supply
FallbackDomains == {ConfigDomains(<<e>>, 1)[1][1] : e \in {EntryX, EntryY}}

\* once rebuilt, the registry holds no configured domain
NoFallbackAfterRebuild ==
    (registry # <<>> /\ registry.rebuilds >= 1) =>
        \A i \in 1..Len(registry.value) : registry.value[i] \notin FallbackDomains

\* the registry built by the watcher is from_vault of the vault
ScanIsFromVault ==
    (watcher.pc = "scan" /\ watcher'.pc = "write") =>
        /\ watcher'.new_registry \in FromVaultNow
        /\ (\A l \in read_dir(vault) : from_vault(vault, l) = <<>>) =>
              watcher'.new_registry = <<>>

\* the registry changes only by the installation of the one the watcher built
InstalledIsScanned ==
    registry'.value # registry.value =>
        /\ watcher.pc = "store"
        /\ registry'.value = watcher.new_registry
        /\ registry'.rebuilds = registry.rebuilds + 1

\* C25: a rebuild installs from_vault of the vault and never the configured
\* fallback: a rebuild that finds no confirmed domain file leaves the
\* registry empty, also when it held configured domains at startup, and the
\* registry changes again only by a later rebuild
C25_RebuildIgnoresFallback ==
    []NoFallbackAfterRebuild /\ [][ScanIsFromVault /\ InstalledIsScanned]_vars

\* the registry held the configured domain at startup and is empty after a
\* rebuild
C25_Witness ==
    /\ registry # <<>>
    /\ registry.fallback
    /\ registry.rebuilds >= 1
    /\ registry.value = <<>>
    /\ FromVaultNow = {<<>>}
    /\ Quiescent

-----------------------------------------------------------------------------
(* Globs whose literal prefix is empty                                     *)

\* the glob has a `*` and nothing but `/` before the first one
CatchAll(glob) ==
    /\ \E k \in 1..Len(glob) : glob[k] = "*"
    /\ \A k \in 1..Len(TextBeforeStar(glob)) : TextBeforeStar(glob)[k] = "/"

\* the domains of the input registry holding such a glob
CatchAllDomains ==
    {i \in 1..Len(inp.registry) :
        \E j \in 1..Len(inp.registry[i].paths) : CatchAll(inp.registry[i].paths[j])}

\* C26 as claimed: a glob whose text before the first `*` is empty or only
\* `/` matches every path, so a domain holding one allows every path, and
\* resolve returns the first domain holding such a glob for every cwd.
C26_CatchAllFirstResolved ==
    (out # None /\ CatchAllDomains # {}) =>
        /\ \A i \in CatchAllDomains : out.allowed[i]
        /\ out.domain = FirstOf(CatchAllDomains)

\* C26 as amended: a domain holding such a glob allows every path, and for
\* every cwd resolve returns the first domain holding such a glob unless a
\* domain registered before it has a glob whose trimmed literal prefix is a
\* prefix of cwd, which is then returned.
C26_CatchAllResolvedUnlessEarlier ==
    (out # None /\ CatchAllDomains # {}) =>
        /\ \A i \in CatchAllDomains : out.allowed[i]
        /\ out.domain = FirstOf(CatchAllDomains \cup DomainsWith(TrimmedPrefixHolds))
        /\ out.domain # <<>>
        /\ \E i \in 1..Len(inp.registry) :
              /\ out.domain = <<inp.registry[i]>>
              /\ \A k \in CatchAllDomains : i <= k

\* a relative path, which the pattern /* does not match, is allowed by the
\* domain holding /* and resolved to it behind a domain that does not hold it
C26_Witness ==
    /\ out # None
    /\ inp.cwd = <<"b", "/", "f">>
    /\ Len(inp.registry) = 2
    /\ inp.registry[1].paths = <<GlobB>>
    /\ inp.registry[2].paths = << <<"/", "*">> >>
    /\ ~GlobMatch(<<"/", "*">>, inp.cwd)
    /\ out.allowed[2]
    /\ out.domain = <<inp.registry[2]>>

-----------------------------------------------------------------------------
(* resolve and path_allowed                                                *)

\* C27: when resolve(cwd) returns a domain, path_allowed(cwd) of that domain
\* is true.
C27_ResolvedIsAllowed ==
    out # None =>
        \A i \in 1..Len(inp.registry) :
            out.domain = <<inp.registry[i]>> => out.allowed[i]

\* resolve returned a domain for a directory that none of its glob patterns
\* matches; and elsewhere a domain allows a path resolve gives to another
C27_Witness ==
    /\ out # None
    /\ inp.cwd = PathOf(LocB)
    /\ Len(inp.registry) = 2
    /\ inp.registry[1].paths = <<GlobB>>
    /\ out.domain = <<inp.registry[1]>>
    /\ ~GlobMatch(GlobB, inp.cwd)
    /\ out.allowed[1]
    /\ out.allowed[2]

-----------------------------------------------------------------------------
(* safe_open and check_path on the same path, domain and filesystem: the   *)
(* filesystem is that of the start or one replacement away from it, and    *)
(* nothing changes it while the two calls run                              *)

\* the filesystems the calls are made on
StaticFilesystems ==
    {InitFs} \cup UNION { { [InitFs EXCEPT ![loc] = entry] : entry \in EntriesFor(loc) } :
                           loc \in MutableLocs }

InitAgree ==
    /\ fs \in StaticFilesystems
    /\ op = "none"
    /\ pc = "idle"
    /\ path = <<>>
    /\ \E dirs \in BoundaryDirChoices :
          /\ bdirs = dirs
          /\ domain = DomainOfDirs(dirs)
    /\ file = None
    /\ canonical = NoPath
    /\ result = None
    /\ fsops = 0
    /\ changed = FALSE
    /\ totalMuts = 0
    /\ inp = None
    /\ out = None
    /\ InitRegIdle

\* the first call: safe_open(path, domain.paths)
SafeOpenFirst ==
    /\ out = None
    /\ \E p \in RawPaths : Begin("safe_open", p)

\* the caller keeps what safe_open returned
Handover ==
    /\ pc = "done"
    /\ op = "safe_open"
    /\ out = None
    /\ out' = [path |-> path, safe_open |-> result]
    /\ pc' = "idle"
    /\ op' = "none"
    /\ result' = None
    /\ file' = None
    /\ canonical' = NoPath
    /\ fsops' = 0
    /\ path' = <<>>
    /\ changed' = FALSE
    /\ UNCHANGED <<fs, domain, bdirs, totalMuts, inp, regVars>>

\* the second call: check_path of the same domain on the same string
CheckPathSecond ==
    /\ out # None
    /\ Begin("check_path", out.path)

NextAgree ==
    \/ SafeOpenFirst
    \/ SafeOpen_Open
    \/ SafeOpen_Canonicalize
    \/ SafeOpen_Metadata
    \/ SafeOpen_Boundary
    \/ Handover
    \/ CheckPathSecond
    \/ Resolve
    \/ CheckPath_Allowed

SpecAgree == InitAgree /\ [][NextAgree]_vars

\* both calls have returned
BothReturned == out # None /\ op = "check_path" /\ pc = "done"

\* check_path blocked with the reason of the detector
BlockedByDetector ==
    /\ result.kind = "Block"
    /\ Len(result.reason) = 4
    /\ result.reason[1] = "dangerous path detected: '"
    /\ result.reason[4] \in DetectorReasons

\* C28: on an unchanging filesystem safe_open returns a handle exactly when
\* check_path of the same domain allows the path and the path can be opened
\* for reading, and safe_open returns DangerousPath exactly when check_path
\* blocks with the reason of the detector.
C28_EnforcementPathsAgree ==
    BothReturned =>
        /\ out.safe_open.kind = "Ok" <=>
              (result.kind = "Allow" /\ File_open(fs, out.path).kind = "Ok")
        /\ out.safe_open.kind = "DangerousPath" <=> BlockedByDetector
        /\ out.safe_open.kind = "DangerousPath" =>
              result.reason[4] = out.safe_open.reason

\* the path is allowed and cannot be opened: safe_open returned no handle
C28_Witness ==
    /\ BothReturned
    /\ out.path = PathOf(LocBU)
    /\ result.kind = "Allow"
    /\ out.safe_open.kind = "ResolutionFailed"

\* both calls passed a symlink that stays inside the boundary
AgreeThroughSymlink ==
    /\ BothReturned
    /\ NodeAt(fs, LocBL).kind = "link"
    /\ out.path = PathOf(LocBL)
    /\ result.kind = "Allow"
    /\ out.safe_open.kind = "Ok"

\* both calls refused a dangerous string
AgreeOnDangerous ==
    /\ BothReturned
    /\ out.safe_open.kind = "DangerousPath"
    /\ BlockedByDetector

-----------------------------------------------------------------------------
(* The order of the two replacement loops and of expand_home               *)

\* a reference to an alias fails: it is unclosed or its name is unknown
AliasFails ==
    \/ UnknownAliasAt # {}
    \/ \E i \in 1..Len(inp.pieces) : inp.pieces[i].k = "open_alias"

\* a reference to a domain fails
DomainFails ==
    \/ UnknownDomainAt # {}
    \/ \E i \in 1..Len(inp.pieces) : inp.pieces[i].k = "open_domain"

IsAliasError(r) ==
    \/ r.kind = "UnknownAlias"
    \/ r.kind = "ExpansionFailed" /\ r.reason = "unclosed {alias:...} reference"

IsDomainError(r) ==
    \/ r.kind = "UnknownDomain"
    \/ r.kind = "ExpansionFailed" /\ r.reason = "unclosed {domain:...} reference"

\* the text holds a reference to an alias
HoldsAliasText(text) == \E k \in 1..Len(text) : text[k] = "{alias:"

\* C29: the references to aliases are replaced, or fail, before any
\* reference to a domain is looked at, and a leading ~/ is replaced last: a
\* text with a failing alias reference gives the alias error wherever its
\* domain references stand, a failing domain reference is reported only when
\* no alias reference fails, a ~/ is replaced in the text the two loops
\* leave, and an {alias:...} text that comes from the root of the domain
\* stays in the result.
C29_AliasesThenDomainsThenHome ==
    (out # None /\ "raw" \in DOMAIN out) =>
        /\ AliasFails =>
              /\ IsAliasError(out.unchecked)
              /\ out.checked = out.unchecked
        /\ (~AliasFails /\ DomainFails) =>
              /\ IsDomainError(out.unchecked)
              /\ out.checked = out.unchecked
        /\ (~AliasFails /\ ~DomainFails) =>
              /\ out.unchecked = [kind |-> "Ok", path |-> HomeInserted(ReplacedText)]
              /\ ( /\ inp.root # <<>>
                   /\ HoldsAliasText(inp.root[1])
                   /\ \E i \in 1..Len(inp.pieces) : inp.pieces[i].k = "domain" )
                    => /\ HoldsAliasText(out.unchecked.path)
                       /\ out.checked.kind \in {"Ok", "OutsideBoundary"}
                       /\ HoldsAliasText(out.checked.path)

\* an unknown domain stands before an unknown alias and the alias is reported
C29_Witness ==
    /\ out # None /\ "raw" \in DOMAIN out
    /\ inp.pieces = <<DomainRef(<<"q">>), AliasRef(<<"z">>)>>
    /\ out.checked = [kind |-> "UnknownAlias", name |-> <<"z">>]
    /\ out.unchecked = out.checked

\* the root {alias:v} of the domain has been put in the text and has stayed
AliasTextFromRootKept ==
    /\ out # None /\ "raw" \in DOMAIN out
    /\ inp.pieces = <<AliasRef(<<"v">>), DomainRef(<<"p">>)>>
    /\ out.unchecked = [kind |-> "Ok",
                        path |-> <<"/", "b", "{alias:", "v", "}">>]

\* ~/{alias:v} gives /b: the home directory is put in after the alias
HomeAfterAlias ==
    /\ out # None /\ "raw" \in DOMAIN out
    /\ inp.pieces = <<Lit(<<"~", "/">>), AliasRef(<<"v">>)>>
    /\ out.unchecked = [kind |-> "Ok", path |-> <<"/", "b">>]

-----------------------------------------------------------------------------
(* from_vault_file on the body of a confirmed domain file, the body being  *)
(* written as lines of text                                                *)

MaxLines == 4         \* every body of up to this many lines is an input

\* the lines bodies are made of
BodyLines ==
    { <<"#", "#", " ", "Paths">>,
      <<"#", "#", " ", "Paths", "x">>,
      <<"#", "#", " ", "Aliases">>,
      <<"#", "#", " ", "x">>,
      <<" ", "#", "#", " ", "Paths">>,
      <<"-", " ", "/", "b", "/", "*">>,
      <<" ", "-", " ", "/", "t", "/", "*", " ">>,
      <<"-", " ", "v", ":", " ", "/", "b">>,
      <<"-", " ", "v", " ", ":", " ", "/", "o", " ">>,
      <<"-", "/", "b">>,
      <<"-", " ">>,
      <<>> }

InitBody ==
    /\ InitIdle
    /\ \E n \in 0..MaxLines : \E q \in [1..n -> BodyLines] : inp = [lines |-> q]

\* the vault file of the confirmed domain a with the first n lines as body
BodyFile(lines, n) ==
    [path |-> DomainsA,
     frontmatter |-> [file_type |-> "domain", domain |-> <<>>,
                      confidence |-> "confirmed", can_read |-> <<>>],
     body |-> [i \in 1..n |-> LineOfText(lines[i])]]

\* from_vault_file is applied to the file, and to the files that end after
\* each of its lines
BodyCall ==
    /\ out = None
    /\ out' = [kind   |-> "Body",
               result |-> from_vault_file(BodyFile(inp.lines, Len(inp.lines))),
               upto   |-> [k \in 1..(Len(inp.lines) + 1) |->
                              from_vault_file(BodyFile(inp.lines, k - 1))]]
    /\ UNCHANGED <<fs, op, pc, path, domain, bdirs, file, canonical, result,
                   fsops, changed, totalMuts, inp, regVars>>

NextBody == BodyCall

SpecBody == InitBody /\ [][NextBody]_vars

\* the line is a `## ` heading
IsHeadingText(line) == StartsWith(line, <<"#", "#", " ">>)

\* the line is a bullet: `- item` once trimmed
IsBulletText(line) == StartsWith(trim(line), <<"-", " ">>)

\* the item of a bullet
ItemOfText(line) == SubSeq(trim(line), 3, Len(trim(line)))

\* the most recent heading before line k starts with the text
UnderHeading(k, text) ==
    \E j \in 1..(k - 1) :
        /\ IsHeadingText(inp.lines[j])
        /\ \A h \in (j + 1)..(k - 1) : ~IsHeadingText(inp.lines[h])
        /\ StartsWith(inp.lines[j], text)

UnderPaths(k) == UnderHeading(k, <<"#", "#", " ", "Paths">>)
UnderAliases(k) == UnderHeading(k, <<"#", "#", " ", "Aliases">>)

\* the item holds `: `
HoldsColonSpace(item) ==
    \E i \in 1..(Len(item) - 1) : item[i] = ":" /\ item[i + 1] = " "

\* the key of an alias item: the text before the first `: `, trimmed
KeyOfItem(item) ==
    LET i == CHOOSE k \in 1..(Len(item) - 1) :
                /\ item[k] = ":" /\ item[k + 1] = " "
                /\ \A h \in 1..(k - 1) : ~(item[h] = ":" /\ item[h + 1] = " ")
    IN  trim(SubSeq(item, 1, i - 1))

\* the value of an alias item: the text after the first `: `, trimmed
ValueOfItem(item) ==
    LET i == CHOOSE k \in 1..(Len(item) - 1) :
                /\ item[k] = ":" /\ item[k + 1] = " "
                /\ \A h \in 1..(k - 1) : ~(item[h] = ":" /\ item[h + 1] = " ")
    IN  trim(SubSeq(item, i + 2, Len(item)))

\* the lines that are alias bullets
AliasBulletsAt ==
    {k \in 1..Len(inp.lines) :
        /\ IsBulletText(inp.lines[k])
        /\ UnderAliases(k)
        /\ HoldsColonSpace(ItemOfText(inp.lines[k]))}

\* C30: the body is scanned line by line with a current section: a bullet
\* becomes a path only under a heading that starts with `## Paths`, an alias
\* only under one that starts with `## Aliases` and when its item holds
\* `: `, and is passed over under another heading or before the first; a
\* line that is no bullet gives no error and changes neither collection;
\* and the value of an alias key is that of its last bullet.
C30_BodyScannedBySection ==
    (out # None /\ "upto" \in DOMAIN out) =>
        /\ out.result.kind = "Ok"
        /\ \A k \in 1..Len(inp.lines) :
              LET before == out.upto[k].domain
                  after  == out.upto[k + 1].domain
                  line   == inp.lines[k]
              IN  /\ out.upto[k + 1].kind = "Ok"
                  /\ ~IsBulletText(line) => after = before
                  /\ after.paths # before.paths =>
                        /\ IsBulletText(line) /\ UnderPaths(k)
                        /\ after.paths = Append(before.paths, ItemOfText(line))
                        /\ after.aliases = before.aliases
                  /\ after.aliases # before.aliases =>
                        /\ IsBulletText(line) /\ UnderAliases(k)
                        /\ HoldsColonSpace(ItemOfText(line))
                        /\ after.paths = before.paths
                  /\ (~UnderPaths(k) /\ ~UnderAliases(k)) => after = before
        /\ out.result.domain.aliases =
              { <<KeyOfItem(ItemOfText(inp.lines[k])),
                  ValueOfItem(ItemOfText(inp.lines[k]))>> :
                  k \in { a \in AliasBulletsAt :
                            \A b \in AliasBulletsAt :
                               (b > a) => KeyOfItem(ItemOfText(inp.lines[b]))
                                             # KeyOfItem(ItemOfText(inp.lines[a])) } }

\* the key v is given twice under ## Aliases and has the second value; the
\* bullet before the heading was passed over
C30_Witness ==
    /\ out # None /\ "upto" \in DOMAIN out
    /\ inp.lines = << <<"-", " ", "v", ":", " ", "/", "b">>,
                      <<"#", "#", " ", "Aliases">>,
                      <<"-", " ", "v", ":", " ", "/", "b">>,
                      <<"-", " ", "v", " ", ":", " ", "/", "o", " ">> >>
    /\ out.result.kind = "Ok"
    /\ out.result.domain.aliases = { << <<"v">>, <<"/", "o">> >> }
    /\ out.result.domain.paths = <<>>

\* an indented bullet under ## Pathsx has become a path, trimmed
IndentedBulletUnderPathsx ==
    /\ out # None /\ "upto" \in DOMAIN out
    /\ inp.lines = << <<"#", "#", " ", "Paths", "x">>,
                      <<" ", "-", " ", "/", "t", "/", "*", " ">> >>
    /\ out.result.domain.paths = << <<"/", "t", "/", "*">> >>

=============================================================================
